---- MODULE Spec2Model ----
(***************************************************************************)
(* Time Guardian: the background script of the extension (the revision     *)
(* with retry-wrapped storage calls), modelled as a state machine.         *)
(*                                                                         *)
(* Conventions.                                                            *)
(*  - A settings object is a function from key names to values.  A key    *)
(*    whose JavaScript value is null or undefined is absent from the       *)
(*    DOMAIN: the code never tells the two apart from a missing key.       *)
(*  - An update passed to chrome.storage.local.set / updateSettings is    *)
(*    [set |-> the non-null assignments, del |-> the keys assigned null]. *)
(*  - Times are milliseconds, as Date.now() gives them.  Each handler is  *)
(*    one step, and Date.now() reads the same value throughout a step.    *)
(*  - A chrome.* call fails on every attempt of withRetry while its       *)
(*    environment flag is FALSE.                                          *)
(***************************************************************************)
EXTENDS Integers, Sequences, FiniteSets, TLC

VARIABLES
  state,          \* let state: the in-memory mirror of the settings
  isInitialized,  \* let isInitialized
  geminiModel,    \* geminiManager.model: "none" or the key it was built from
  store,          \* chrome.storage.local
  alarms,         \* chrome.alarms: the alarms named timeNotification
  pendingAlarm,   \* an onAlarm event dispatched by the platform, not yet handled
  notifications,  \* the reminder notifications on screen (their button minutes)
  inflight,       \* an AlarmManager.setup suspended at one of its awaits
  popup,          \* the popup page: its state, its timers, the requests it sent
  now,            \* Date.now()
  ticks,          \* how often the clock has advanced
  storageReadOk,  \* chrome.storage.local.get succeeds
  storageWriteOk, \* chrome.storage.local.set / clear succeed
  alarmCreateOk,  \* chrome.alarms.create succeeds
  steps,          \* how many steps have been taken
  last,           \* the step taken last: operation, argument, result, state before
  retry,          \* one call of withRetry: its arguments, its loop, its result
  gemini,         \* the calls of GeminiManager.init: initPromise, model, promises
  updating        \* the calls of updateSettings: their awaits, the change events

vars == <<state, isInitialized, geminiModel, store, alarms, pendingAlarm,
          notifications, now, ticks, storageReadOk, storageWriteOk,
          alarmCreateOk, steps, last, inflight, popup, retry, gemini,
          updating>>

\* the variables of the extension without those of a single function call
program == <<state, isInitialized, geminiModel, store, alarms, pendingAlarm,
             notifications, now, ticks, storageReadOk, storageWriteOk,
             alarmCreateOk, steps, last, inflight, popup>>

\* the calls followed statement by statement
units == <<retry, gemini, updating>>

\* ------------------------------------------------------------------ bounds

MaxTicks == 2
MaxSteps == 4
StartTime == 1000000
MaxRetries == 3
MaxCalls == 4

\* The clock advances by less than the reconciliation tolerance, or by just
\* over a minute.
TickSteps == {600, 61000}

\* The minutes a command carries: below, at and above 0, valid, above the maximum.
Minutes == {0, 1, 20, 180, 181}

Prompts == {"p1"}

\* Action names without a handler: one that is no property of the handler
\* table at all, one that the table inherits.
OtherActions == {"noSuchAction", "toString"}

\* The key a saveApiKey command carries: blank, or a key.
ApiKeys == {"", "k1"}

\* ------------------------------------------------------------ JS helpers

Min(a, b) == IF a <= b THEN a ELSE b
Max(a, b) == IF a >= b THEN a ELSE b
Abs(a) == IF a >= 0 THEN a ELSE -a

\* Math.ceil(a / b) for b > 0
CeilDiv(a, b) == -((-a) \div b)

\* Values that are not of type number, where a number is expected: the
\* string "abc" and the empty string "" (which is falsy).
NonNumeric == -424242
EmptyString == -424243

\* typeof x === 'number'
IsNumber(x) == x \notin {NonNumeric, EmptyString}

Has(s, k) == k \in DOMAIN s

\* Number(s[k]): null converts to 0
NumOf(s, k) == IF Has(s, k) THEN s[k] ELSE 0

\* if (s[k]) for a numeric or string field: null, undefined, 0 and "" are falsy
Truthy(s, k) == Has(s, k) /\ s[k] \notin {0, EmptyString}

\* { ...s, ...u }
Merge(s, u) ==
  LET dom == (DOMAIN s \ u.del) \cup DOMAIN u.set
  IN  [k \in dom |-> IF k \in DOMAIN u.set THEN u.set[k] ELSE s[k]]

SetTo(rec) == [set |-> rec, del |-> {}]
SetNull(k) == [set |-> <<>>, del |-> {k}]

\* --------------------------------------------------------------- constants

DEFAULT_SETTINGS ==
  [ isActive |-> TRUE,
    soundEnabled |-> FALSE,
    notificationInterval |-> 3,
    maxSnoozeMinutes |-> 180,
    defaultSnoozeOptions |-> <<5, 15>>,
    retryAttempts |-> 3 ]

REQUIRED_SETTINGS == {"isActive", "notificationInterval", "maxSnoozeMinutes"}

Tolerance == 1000
MsPerMinute == 60000

\* A validation that lets an interval of zero or less through.
validateSettingsNoLowerBound(settings) ==
  /\ REQUIRED_SETTINGS \subseteq DOMAIN settings
  /\ IsNumber(settings.notificationInterval)
  /\ settings.notificationInterval <= settings.maxSnoozeMinutes
  /\ Truthy(settings, "nextNotificationTime") =>
       /\ IsNumber(settings.nextNotificationTime)
       /\ settings.nextNotificationTime >= 0

\* TRUE where the code returns true, FALSE where it throws
validateSettings(settings) ==
  /\ REQUIRED_SETTINGS \subseteq DOMAIN settings
  /\ IsNumber(settings.notificationInterval)
  /\ settings.notificationInterval > 0
  /\ settings.notificationInterval <= settings.maxSnoozeMinutes
  /\ Truthy(settings, "nextNotificationTime") =>
       /\ IsNumber(settings.nextNotificationTime)
       /\ settings.nextNotificationTime >= 0

\* ------------------------------------------------------------------ world
\* What a handler reads and writes; sets counts the chrome.storage.local.set
\* attempts of the running step, generations its calls of
\* geminiManager.generateMessage, resets its calls of StorageManager.reset,
\* clears its calls of chrome.storage.local.clear, calls the methods it has
\* entered (initialize, show, cleanup, setup, handleGenerationError), in the
\* order of entry.
\* alarmSilent = chrome.alarms.create resolves and creates no alarm,
\* alarmReadOk = chrome.alarms.getAll and chrome.alarms.clear resolve.

World ==
  [ state |-> state, isInitialized |-> isInitialized, geminiModel |-> geminiModel,
    store |-> store, alarms |-> alarms, notifications |-> notifications,
    storageReadOk |-> storageReadOk, storageWriteOk |-> storageWriteOk,
    alarmCreateOk |-> alarmCreateOk,
    sets |-> 0, generations |-> 0, resets |-> 0, clears |-> 0,
    calls |-> <<>>, alarmSilent |-> FALSE, alarmReadOk |-> TRUE ]

Ret(w, r) == [w |-> w, ret |-> r]

\* the running step enters method
Called(w, method) == [w EXCEPT !.calls = Append(@, method)]

\* ------------------------------------------------------- chrome.storage
\* chrome.storage.onChanged listener: a key whose newValue is undefined (the
\* key was removed) is skipped, every other key is copied into the mirror.
onChanged(w, changes) ==
  [w EXCEPT !.state = Merge(@, [set |-> changes.set, del |-> changes.nulls])]

\* chrome.storage.local.set(items), and the change event it raises for the
\* keys whose value it changed
storageSet(w, items) ==
  LET newStore == Merge(w.store, items)
      setKeys == {k \in DOMAIN items.set :
                    ~Has(w.store, k) \/ w.store[k] # items.set[k]}
      nullKeys == {k \in items.del : Has(w.store, k)}
  IN  onChanged([w EXCEPT !.store = newStore, !.sets = @ + 1],
                [set |-> [k \in setKeys |-> items.set[k]],
                 nulls |-> nullKeys, removed |-> {}])

\* chrome.storage.local.clear(): every key is reported removed
storageClear(w) ==
  onChanged([w EXCEPT !.store = <<>>, !.clears = @ + 1],
            [set |-> <<>>, nulls |-> {}, removed |-> DOMAIN w.store])

\* ---------------------------------------------------------- StorageManager

updateSettings(w, updates) ==
  LET newState == Merge(w.state, updates)
  IN  IF ~validateSettings(newState) THEN Ret(w, FALSE)
      ELSE IF ~w.storageWriteOk
        THEN Ret([w EXCEPT !.sets = @ + w.state.retryAttempts], FALSE)
        ELSE Ret([storageSet(w, updates) EXCEPT !.state = newState], TRUE)

reset(w) ==
  IF ~w.storageWriteOk THEN Ret([w EXCEPT !.resets = @ + 1], FALSE)
  ELSE Ret([storageSet(storageClear(w), SetTo(DEFAULT_SETTINGS))
              EXCEPT !.state = DEFAULT_SETTINGS, !.isInitialized = FALSE,
                     !.resets = @ + 1], TRUE)

\* ----------------------------------------------------------- GeminiManager
\* init(apiKey) with no other init in flight; threw = the promise rejected.
geminiInit(w, apiKey) ==
  IF w.storageWriteOk
    THEN [w |-> storageSet([w EXCEPT !.geminiModel = apiKey],
                           SetTo([geminiInitialized |-> TRUE])),
          ret |-> TRUE, threw |-> FALSE]
    ELSE [w |-> [w EXCEPT !.geminiModel = "none", !.sets = @ + 2],
          ret |-> FALSE, threw |-> TRUE]

\* ------------------------------------------------------------ AlarmManager

\* A cleanup that clears the alarm and reports success without touching the
\* persisted time.
cleanupKeepsTime(w) ==
  LET w0 == Called(w, "cleanup")
  IN  IF ~w0.alarmReadOk THEN Ret(w0, FALSE)
      ELSE Ret([w0 EXCEPT !.alarms = {}], TRUE)

\* a rejected chrome.alarms.getAll or clear lands in the catch: return false
cleanup(w) ==
  LET w0 == Called(w, "cleanup")
  IN  IF ~w0.alarmReadOk THEN Ret(w0, FALSE)
      ELSE updateSettings([w0 EXCEPT !.alarms = {}],
                          SetNull("nextNotificationTime"))

\* A fire time that forgets the minutes asked for.
actualNextTimeAlwaysNow(minutes, immediately, nextTime) ==
  IF nextTime # 0 THEN nextTime ELSE now

\* const actualNextTime = nextTime || (immediately ? now : now + minutes * 60000)
actualNextTime(minutes, immediately, nextTime) ==
  IF nextTime # 0 THEN nextTime
  ELSE IF immediately THEN now ELSE now + minutes * MsPerMinute

\* the alarms after chrome.alarms.create(ALARM_NAME, { when, periodInMinutes })
\* has resolved
created(w, when, minutes) ==
  IF w.alarmSilent THEN {} ELSE {[when |-> when, period |-> minutes]}

\* verifySchedule(): true when chrome.alarms.get finds the alarm
verifySchedule(w) == w.alarms # {}

\* setup from the return of its await this.cleanup() to its end: the alarm is
\* created and its time persisted, with no second look at isActive
setupArm(w, minutes, immediately, nextTime) ==
  LET t == actualNextTime(minutes, immediately, nextTime)
  IN  IF ~w.alarmCreateOk THEN Ret(w, FALSE)
      ELSE updateSettings([w EXCEPT !.alarms = created(w, t, minutes)],
                          SetTo([nextNotificationTime |-> t]))

\* A setup that counts the interval from the time persisted before it.
setupFromPersisted(w0, minutes, immediately, nextTime) ==
  LET w == Called(w0, "setup") IN
  IF ~w.state.isActive THEN Ret(w, FALSE)
  ELSE IF minutes <= 0 \/ minutes > w.state.maxSnoozeMinutes THEN Ret(w, FALSE)
  ELSE IF nextTime # 0 /\ nextTime <= now THEN Ret(w, FALSE)
  ELSE
    LET c == cleanup(w)
        t == IF Truthy(w.state, "nextNotificationTime") /\ nextTime = 0
               THEN w.state.nextNotificationTime + minutes * MsPerMinute
               ELSE actualNextTime(minutes, immediately, nextTime)
    IN  IF ~c.w.alarmCreateOk THEN Ret(c.w, FALSE)
        ELSE
          LET w2 == [c.w EXCEPT !.alarms = created(c.w, t, minutes)]
              u == updateSettings(w2, SetTo([nextNotificationTime |-> t]))
          IN  Ret(u.w, u.ret)

\* A setup that clears the old alarm before it looks at its arguments.
setupCleansFirst(w0, minutes, immediately, nextTime) ==
  LET w == cleanup(Called(w0, "setup")).w IN
  IF ~w.state.isActive THEN Ret(w, FALSE)
  ELSE IF minutes <= 0 \/ minutes > w.state.maxSnoozeMinutes THEN Ret(w, FALSE)
  ELSE IF nextTime # 0 /\ nextTime <= now THEN Ret(w, FALSE)
  ELSE
    LET t == actualNextTime(minutes, immediately, nextTime)
    IN  IF ~w.alarmCreateOk THEN Ret(w, FALSE)
        ELSE
          LET w2 == [w EXCEPT !.alarms = created(w, t, minutes)]
              u == updateSettings(w2, SetTo([nextNotificationTime |-> t]))
          IN  Ret(u.w, u.ret)

\* nextTime = 0 stands for the default null: the code tests it for truthiness.
\* The result of await this.verifySchedule() is not looked at.
setup(w0, minutes, immediately, nextTime) ==
  LET w == Called(w0, "setup") IN
  IF ~w.state.isActive THEN Ret(w, FALSE)
  ELSE IF minutes <= 0 \/ minutes > w.state.maxSnoozeMinutes THEN Ret(w, FALSE)
  ELSE IF nextTime # 0 /\ nextTime <= now THEN Ret(w, FALSE)
  ELSE setupArm(cleanup(w).w, minutes, immediately, nextTime)

\* The guards of setup, which run before its first await.
setupAdmits(w, minutes, nextTime) ==
  /\ w.state.isActive
  /\ ~(minutes <= 0 \/ minutes > w.state.maxSnoozeMinutes)
  /\ ~(nextTime # 0 /\ nextTime <= now)

\* A default setup that fires immediately.
setupDefaultImmediately(w) == setup(w, w.state.notificationInterval, TRUE, 0)

\* AlarmManager.setup() with its default arguments
setupDefault(w) == setup(w, w.state.notificationInterval, FALSE, 0)

\* --------------------------------------------- StorageManager.initialize

\* the catch branch: defaults in the mirror, then clear and rewrite the store
initializeFailed(w) ==
  LET w1 == [w EXCEPT !.state = DEFAULT_SETTINGS, !.isInitialized = FALSE]
  IN  IF w.storageWriteOk
        THEN Ret(storageSet(storageClear(w1), SetTo(DEFAULT_SETTINGS)), FALSE)
        ELSE Ret(w1, FALSE)

\* the try block: read the store, merge, validate, publish, bring up the
\* model and the alarm
initializeBody(w) ==
  IF ~w.storageReadOk THEN initializeFailed(w)
  ELSE
    LET merged == Merge(DEFAULT_SETTINGS, SetTo(w.store))
    IN  IF ~validateSettings(merged) THEN initializeFailed(w)
        ELSE
          LET newState ==
                IF ~Truthy(merged, "nextNotificationTime") /\ merged.isActive
                  THEN Merge(merged, SetTo([nextNotificationTime |->
                         now + merged.notificationInterval * MsPerMinute]))
                  ELSE merged
              w1 == [w EXCEPT !.state = newState, !.isInitialized = TRUE]
              g == IF Has(w1.state, "apiKey")
                     THEN geminiInit(w1, w1.state.apiKey)
                     ELSE [w |-> w1, ret |-> TRUE, threw |-> FALSE]
          IN  IF g.threw THEN initializeFailed(g.w)
              ELSE IF g.w.state.isActive
                THEN Ret(setupDefault(g.w).w, TRUE)
                ELSE Ret(g.w, TRUE)

\* An initialize that loads the store on every call.
initializeEveryTime(w0) == initializeBody(Called(w0, "initialize"))

\* if (isInitialized) return true;
initialize(w0) ==
  LET w == Called(w0, "initialize") IN
  IF w.isInitialized THEN Ret(w, TRUE) ELSE initializeBody(w)

\* initialize from its start to its call of AlarmManager.setup: the stored
\* record is adopted and isInitialized is set before the model and the alarm
\* are set up; ret = that call is reached
initializeBegins(w) ==
  LET merged == Merge(DEFAULT_SETTINGS, SetTo(w.store))
      newState ==
        IF ~Truthy(merged, "nextNotificationTime") /\ merged.isActive
          THEN Merge(merged, SetTo([nextNotificationTime |->
                 now + merged.notificationInterval * MsPerMinute]))
          ELSE merged
      w1 == [w EXCEPT !.state = newState, !.isInitialized = TRUE]
      g == IF Has(w1.state, "apiKey")
             THEN geminiInit(w1, w1.state.apiKey)
             ELSE [w |-> w1, ret |-> TRUE, threw |-> FALSE]
  IN  IF ~w.isInitialized /\ w.storageReadOk /\ validateSettings(merged)
        THEN Ret(g.w, ~g.threw /\ g.w.state.isActive)
        ELSE Ret(w, FALSE)

\* ----------------------------------------------------- NotificationManager

\* A notification that asks the backend whether or not a model handle exists.
wantsGeneratedAlways(w, tab) == tab

\* if (activeTab?.url && activeTab?.title && geminiManager.model)
wantsGenerated(w, tab) == tab /\ w.geminiModel # "none"

\* GeminiManager.handleGenerationError: the error notification is created
\* and a timer of notificationDuration is armed to clear it; what the
\* creation throws is caught inside
handleGenerationError(w) == Called(w, "handleGenerationError")

\* the message of a generation that failed
NoMessage == "null"

\* the outcomes of withRetry(model.generateContent): a text, a throw on
\* every attempt, a result without a response
Outcomes == {"text", "throws", "noResponse"}

\* GeminiManager.generateMessage(url, title, timeString): without a model it
\* logs to the console and returns null; a throw of the body is caught and
\* handed to handleGenerationError
generateMessage(w0, outcome) ==
  LET w == [w0 EXCEPT !.generations = @ + 1]
  IN  IF w.geminiModel = "none" THEN Ret(w, NoMessage)
      ELSE IF outcome = "text" THEN Ret(w, "generated")
      ELSE Ret(handleGenerationError(w), NoMessage)

\* show(): tab = the active tab has a url and a title, answered = the backend
\* answers a generation call with a text.  The body is the generated text
\* or the fallback template, a button is labelled with its minutes.
show(w0, tab, answered) ==
  LET w == Called(w0, "show") IN
  IF ~w.state.isActive THEN w
  ELSE
    LET asked == wantsGenerated(w, tab)
        g == IF asked
               THEN generateMessage(w, IF answered THEN "text" ELSE "throws")
               ELSE Ret(w, NoMessage)
    IN  [g.w EXCEPT !.notifications =
                      {[ body |-> IF g.ret # NoMessage THEN g.ret
                                                       ELSE "fallback",
                         buttons |-> w.state.defaultSnoozeOptions ]}]

\* A pair that keeps the previous lower bound.
newSnoozeOptionsKeepLower(minutes, options) ==
  << Min(minutes, options[1]), Max(minutes, options[2]) >>

\* A pair that is not put in order.
newSnoozeOptionsUnsorted(minutes, options) ==
  << minutes, options[2] >>

\* [Math.min(minutes, options[1]), Math.max(minutes, options[1])], written
\* the same way in snooze and in the setNextAlert command
newSnoozeOptions(minutes, options) ==
  << Min(minutes, options[2]), Max(minutes, options[2]) >>

\* A snooze that re-arms the alarm for the present moment.
snoozeImmediately(w, minutes) ==
  IF minutes > w.state.maxSnoozeMinutes THEN Ret(w, FALSE)
  ELSE
    LET nextTime == now + minutes * MsPerMinute
        options == newSnoozeOptions(minutes, w.state.defaultSnoozeOptions)
        u == updateSettings(w, SetTo([defaultSnoozeOptions |-> options,
                                      nextNotificationTime |-> nextTime]))
    IN  IF ~u.ret THEN Ret(u.w, FALSE)
        ELSE setup(u.w, minutes, TRUE, 0)

snooze(w, minutes) ==
  IF minutes > w.state.maxSnoozeMinutes THEN Ret(w, FALSE)
  ELSE
    LET nextTime == now + minutes * MsPerMinute
        options == newSnoozeOptions(minutes, w.state.defaultSnoozeOptions)
        u == updateSettings(w, SetTo([defaultSnoozeOptions |-> options,
                                      nextNotificationTime |-> nextTime]))
    IN  IF ~u.ret THEN Ret(u.w, FALSE)
        ELSE setup(u.w, minutes, FALSE, nextTime)

\* ---------------------------------------------- MessageHandler.handle

\* { success: false, error: '...' } and { success: true }
Failure(error) == [success |-> FALSE, error |-> error]
Ok == [success |-> TRUE]
Answer(ok, error) == IF ok THEN Ok ELSE Failure(error)
Resp(w, r) == [w |-> w, resp |-> r]

\* { correctTime: state.nextNotificationTime }, absent when it is null
TimeField(name, s) ==
  IF Has(s, "nextNotificationTime")
    THEN name :> s.nextNotificationTime
    ELSE <<>>

handleSnooze(w, minutes) ==
  IF minutes <= w.state.maxSnoozeMinutes
    THEN LET r == snooze(w, minutes)
         IN  Resp(r.w, Answer(r.ret, "Failed to snooze notification"))
    ELSE Resp(w, Failure("Snooze duration exceeds maximum allowed time"))

handleNotification(w, minutes) ==
  IF minutes <= w.state.maxSnoozeMinutes
    THEN LET u == updateSettings(w,
                    SetTo([notificationInterval |-> minutes,
                           nextNotificationTime |-> now + minutes * MsPerMinute]))
         IN  IF u.ret
               THEN LET a == setup(u.w, minutes, FALSE, 0)
                    IN  Resp(a.w, Answer(a.ret, "Failed to setup notifications"))
               ELSE Resp(u.w, Failure("Failed to save notification interval"))
    ELSE Resp(w, Failure("Interval exceeds maximum allowed time"))

\* A reconciliation that corrects the mirror and forgets the store.
adoptAlarmTimeMirrorOnly(w, alarm) ==
  [w EXCEPT !.state = Merge(@, SetTo([nextNotificationTime |-> alarm.when]))]

\* verifyAlarm on a mismatch: state.nextNotificationTime = alarm.scheduledTime,
\* then updateSettings with it, whose result is not looked at
adoptAlarmTime(w, alarm) ==
  LET w1 == [w EXCEPT !.state =
               Merge(@, SetTo([nextNotificationTime |-> alarm.when]))]
  IN  updateSettings(w1, SetTo([nextNotificationTime |-> alarm.when])).w

handleVerifyAlarm(w) ==
  IF w.alarms = {}
    THEN IF w.state.isActive /\ Truthy(w.state, "nextNotificationTime")
           THEN LET minutesLeft ==
                      Max(1, CeilDiv(w.state.nextNotificationTime - now, MsPerMinute))
                    a == setup(w, minutesLeft, FALSE, w.state.nextNotificationTime)
                IN  Resp(a.w, [success |-> TRUE, needsUpdate |-> TRUE]
                                @@ TimeField("correctTime", a.w.state))
           ELSE Resp(w, [success |-> TRUE, needsUpdate |-> TRUE])
    ELSE
      LET alarm == CHOOSE a \in w.alarms : TRUE
          timeDiff == Abs(alarm.when - NumOf(w.state, "nextNotificationTime"))
      IN  IF timeDiff > Tolerance
            THEN Resp(adoptAlarmTime(w, alarm),
                      [success |-> TRUE, needsUpdate |-> TRUE,
                       correctTime |-> alarm.when])
            ELSE Resp(w, [success |-> TRUE, needsUpdate |-> FALSE])

\* A status query that re-arms whether or not notifications are active.
alarmMissingWhileInactive(w) == w.alarms = {}

\* if (!alarm && state.isActive)
alarmMissing(w) == w.alarms = {} /\ w.state.isActive

handleGetAlarmStatus(w) ==
  LET w3 ==
        IF alarmMissing(w)
          THEN LET nextTime == now + w.state.notificationInterval * MsPerMinute
                   a == setup(w, w.state.notificationInterval, FALSE, nextTime)
                   w1 == [a.w EXCEPT !.state =
                            Merge(@, SetTo([nextNotificationTime |-> nextTime]))]
               IN  updateSettings(w1, SetTo([nextNotificationTime |-> nextTime])).w
          ELSE w
  IN  Resp(w3, [success |-> TRUE, isActive |-> w3.state.isActive]
                 @@ TimeField("nextNotificationTime", w3.state))

\* A toggle that persists the flag and leaves the alarm alone when turned on.
handleToggleWithoutSetup(w, isActive) ==
  LET u == updateSettings(w, SetTo([isActive |-> isActive]))
  IN  IF u.ret
        THEN IF isActive THEN Resp(u.w, Ok) ELSE Resp(cleanup(u.w).w, Ok)
        ELSE Resp(u.w, Failure("Failed to update notification status"))

handleToggle(w, isActive) ==
  LET u == updateSettings(w, SetTo([isActive |-> isActive]))
  IN  IF u.ret
        THEN IF isActive
               THEN Resp(setup(u.w, u.w.state.notificationInterval, TRUE, 0).w, Ok)
               ELSE Resp(cleanup(u.w).w, Ok)
        ELSE Resp(u.w, Failure("Failed to update notification status"))

\* getSettings tries the initialization again when the dispatcher's failed
handleGetSettings(w) ==
  LET i == IF ~w.isInitialized THEN initialize(w).w ELSE w
  IN  Resp(i, [success |-> TRUE, settings |-> i.state])

handleUpdateSound(w, enabled) ==
  LET u == updateSettings(w, SetTo([soundEnabled |-> enabled]))
  IN  Resp(u.w, Answer(u.ret, "Failed to update sound settings"))

handleSaveCustomPrompt(w, customPrompt) ==
  LET u == updateSettings(w, SetTo([customPrompt |-> customPrompt]))
  IN  Resp(u.w, Answer(u.ret, "Failed to save custom prompt"))

\* handlers[request.action] for an action that names no handler of the
\* object literal: a property the literal inherits from Object.prototype is
\* found and called like a handler, and what it returns is the response.
\* toString, called with no receiver, returns "[object Undefined]".
handleOther(w, action) ==
  IF action = "toString"
    THEN Resp(w, [raw |-> "[object Undefined]"])
    ELSE Resp(w, Failure("Unknown action requested"))

handleSetNextAlert(w, minutes) ==
  IF ~w.state.isActive THEN Resp(w, Failure("Please enable notifications first"))
  ELSE IF minutes > w.state.maxSnoozeMinutes
    THEN Resp(w, Failure("Time cannot exceed the maximum"))
  ELSE
    LET nextTime == now + minutes * MsPerMinute
        options == newSnoozeOptions(minutes, w.state.defaultSnoozeOptions)
    IN  IF nextTime <= now
          THEN Resp(w, Failure("Cannot set notification time in the past"))
        ELSE
          LET u == updateSettings(w,
                     SetTo([nextNotificationTime |-> nextTime,
                            defaultSnoozeOptions |-> options]))
          IN  IF u.ret
                THEN LET a == setup(u.w, minutes, FALSE, nextTime)
                     IN  Resp(a.w, Answer(a.ret, "Failed to set next alert"))
                ELSE Resp(u.w, Failure("Failed to save next alert time"))

\* A lazy initialization that starts from a clean store.
hydrateFromScratch(w) ==
  IF ~w.isInitialized THEN initialize(reset(w).w).w ELSE w

\* the lazy initialization every command starts with
hydrate(w) == IF ~w.isInitialized THEN initialize(w).w ELSE w

\* A validation that takes every non-blank key for a working one.
validateApiKeyUnchecked(apiKey, answered) == apiKey # ""

\* GeminiManager.validateApiKey: answered = the test generation came back
\* with a response (it threw or came back empty otherwise)
validateApiKey(apiKey, answered) == apiKey # "" /\ answered

\* the browser is taken to be online
handleSaveApiKey(w, apiKey, answered) ==
  IF apiKey = "" THEN Resp(w, Failure("Please enter your Gemini API key"))
  ELSE IF ~validateApiKey(apiKey, answered)
    THEN Resp(w, Failure("Invalid API key"))
  ELSE
    LET u == updateSettings(w, SetTo([apiKey |-> apiKey]))
    IN  IF u.ret
          THEN LET g == geminiInit(u.w, apiKey)
               IN  IF g.threw THEN Resp(g.w, Failure("Connection error"))
                   ELSE Resp(g.w, Answer(g.ret, "Could not connect to Gemini API"))
          ELSE Resp(u.w, Failure("Could not save API key"))

\* ------------------------------------------------------- event listeners

\* the recovery attempt of the alarm chain
recover(w) ==
  LET r == reset(w)
      i == initialize(r.w)
  IN  setupDefault(i.w).w

\* the platform calls succeed again
Healed(w) ==
  [w EXCEPT !.storageReadOk = TRUE, !.storageWriteOk = TRUE,
            !.alarmCreateOk = TRUE]

\* A fire chain that logs its failure and leaves it at that.
onFailureGiveUp(w, healed) == w

\* the catch branch of the listener; healed = the platform calls that failed
\* in the chain succeed again by now (the retries and their delays are over)
onFailure(w, healed) == recover(IF healed THEN Healed(w) ELSE w)

\* A fire chain that arms the next alarm before it clears the old one.
onAlarmSetupFirst(w, tab, answered, healed) ==
  LET i == IF ~w.isInitialized THEN initialize(w) ELSE Ret(w, TRUE)
  IN  IF ~i.ret THEN onFailure(i.w, healed)
      ELSE
        LET a == setupDefault(show(i.w, tab, answered))
            c == cleanup(a.w)
        IN  IF a.ret THEN c.w ELSE onFailure(c.w, healed)

\* chrome.alarms.onAlarm listener
onAlarm(w, tab, answered, healed) ==
  LET i == IF ~w.isInitialized THEN initialize(w) ELSE Ret(w, TRUE)
  IN  IF ~i.ret THEN onFailure(i.w, healed)
      ELSE
        LET c == cleanup(show(i.w, tab, answered))
            a == setupDefault(c.w)
        IN  IF a.ret THEN a.w ELSE onFailure(a.w, healed)

\* chrome.notifications.onButtonClicked listener, buttonIndex counted from 0
onButtonClicked(w, buttonIndex) ==
  LET w1 == [w EXCEPT !.notifications = {}]
      snoozeMinutes == w1.state.defaultSnoozeOptions[buttonIndex + 1]
  IN  IF snoozeMinutes # 0 THEN snooze(w1, snoozeMinutes) ELSE Ret(w1, FALSE)

\* --------------------------------------------------------------- the steps

Commit(w) ==
  /\ state' = w.state
  /\ isInitialized' = w.isInitialized
  /\ geminiModel' = w.geminiModel
  /\ store' = w.store
  /\ alarms' = w.alarms
  /\ notifications' = w.notifications

Counted == steps < MaxSteps /\ steps' = steps + 1

\* what a handler returns, computed once for the step that runs it (no step
\* is taken once MaxSteps are)
Outcome(r) == IF steps < MaxSteps THEN {r} ELSE {}

\* the world a step started from
Before ==
  [ state |-> state, store |-> store, alarms |-> alarms,
    isInitialized |-> isInitialized, geminiModel |-> geminiModel,
    storageReadOk |-> storageReadOk, storageWriteOk |-> storageWriteOk,
    alarmCreateOk |-> alarmCreateOk, notifications |-> notifications ]

\* op has run on argument arg from the world hyd (the world after the lazy
\* initialization, if the step has one) and ended in w
Log(op, arg, hyd, w, ok, resp) ==
  /\ Counted
  /\ last' = [ op |-> op, arg |-> arg, ok |-> ok, resp |-> resp, at |-> now,
               sets |-> w.sets, generations |-> w.generations,
               resets |-> w.resets, clears |-> w.clears, calls |-> w.calls,
               pre |-> Before, hyd |-> hyd.state ]
  /\ UNCHANGED units

\* a step of the background script: the popup page takes no part in it
Note(op, arg, hyd, w, ok, resp) ==
  Log(op, arg, hyd, w, ok, resp) /\ UNCHANGED popup

\* a step that runs no part of a suspended setup
Record(op, arg, hyd, w, ok, resp) ==
  Note(op, arg, hyd, w, ok, resp) /\ UNCHANGED inflight

Env(op) == Record(op, 0, World, World, TRUE, <<>>)

EnvUnchanged == UNCHANGED <<storageReadOk, storageWriteOk, alarmCreateOk>>
ClockUnchanged == UNCHANGED <<now, ticks>>

Command(op, arg, hyd, r) ==
  /\ \E res \in Outcome(r) :
       /\ Record(op, arg, hyd, res.w,
                 Has(res.resp, "success") /\ res.resp.success, res.resp)
       /\ Commit(res.w)
  /\ UNCHANGED pendingAlarm
  /\ EnvUnchanged /\ ClockUnchanged

\* popup.js before DOMContentLoaded and after unload: no page, no timer.
\* loops = the setInterval timers that run, sent = the actions requested
\* since the page opened, awaiting = a request whose callback has not run
Closed ==
  [ open |-> FALSE, isLoading |-> FALSE, notificationsActive |-> TRUE,
    loops |-> {}, sent |-> <<>>, awaiting |-> FALSE ]

\* no call of updateSettings is followed: calls = the calls made, in order,
\* each with the place it is suspended at and what it returned; events = the
\* change events that the platform has raised and the listener not yet run on
NoUpdates == [calls |-> <<>>, events |-> <<>>]

\* no setup is suspended
Idle == [pc |-> "idle", minutes |-> 0, immediately |-> FALSE, by |-> "none"]

\* no call of withRetry is followed
NoRetry ==
  [ pc |-> "none", retryCount |-> 0, retryDelay |-> 0,
    throws |-> [a \in 0 .. MaxRetries - 1 |-> FALSE], attempt |-> 0,
    invoked |-> 0, slept |-> <<>>, result |-> 0, lastError |-> 0 ]

\* new GeminiManager(): model = null, initPromise = null (written 0), no
\* promise made.  running = the promises whose async body has begun and not
\* finished, with the place it is suspended at; outcome = what a promise has
\* resolved with; calls = the calls of init made, in order
NoInit ==
  [ initPromise |-> 0, model |-> "none", constructions |-> 0,
    running |-> <<>>, outcome |-> <<>>, calls |-> <<>> ]

Init ==
  /\ retry = NoRetry
  /\ gemini = NoInit
  /\ updating = NoUpdates
  /\ state = DEFAULT_SETTINGS
  /\ isInitialized = FALSE
  /\ geminiModel = "none"
  /\ store = <<>>
  /\ alarms = {}
  /\ pendingAlarm = FALSE
  /\ notifications = {}
  /\ inflight = Idle
  /\ popup = Closed
  /\ now = StartTime
  /\ ticks = 0
  /\ storageReadOk = TRUE
  /\ storageWriteOk = TRUE
  /\ alarmCreateOk = TRUE
  /\ steps = 0
  /\ last = [ op |-> "start", arg |-> 0, ok |-> TRUE, resp |-> <<>>,
              at |-> StartTime, sets |-> 0, generations |-> 0, resets |-> 0,
              clears |-> 0, calls |-> <<>>,
              pre |-> [ state |-> DEFAULT_SETTINGS, store |-> <<>>, alarms |-> {},
                        isInitialized |-> FALSE, geminiModel |-> "none",
                        storageReadOk |-> TRUE, storageWriteOk |-> TRUE,
                        alarmCreateOk |-> TRUE, notifications |-> {} ],
              hyd |-> DEFAULT_SETTINGS ]

\* chrome.runtime.onInstalled / onStartup
OnStartup ==
  \E r \in Outcome(initialize(World)) :
      /\ Record("initialize", 0, World, r.w, r.ret, <<>>)
      /\ Commit(r.w)
      /\ UNCHANGED pendingAlarm
      /\ EnvUnchanged /\ ClockUnchanged

CmdSnooze ==
  \E minutes \in Minutes :
    \E h \in Outcome(hydrate(World)) :
      Command("snooze", minutes, h, handleSnooze(h, minutes))

CmdNotification ==
  \E minutes \in Minutes :
    \E h \in Outcome(hydrate(World)) :
      Command("notification", minutes, h, handleNotification(h, minutes))

CmdSetNextAlert ==
  \E minutes \in Minutes :
    \E h \in Outcome(hydrate(World)) :
      Command("setNextAlert", minutes, h, handleSetNextAlert(h, minutes))

CmdVerifyAlarm ==
  \E h \in Outcome(hydrate(World)) :
    Command("verifyAlarm", 0, h, handleVerifyAlarm(h))

CmdGetAlarmStatus ==
  \E h \in Outcome(hydrate(World)) :
    Command("getAlarmStatus", 0, h, handleGetAlarmStatus(h))

CmdToggle ==
  \E isActive \in BOOLEAN :
    \E h \in Outcome(hydrate(World)) :
      Command("toggle", isActive, h, handleToggle(h, isActive))

CmdGetSettings ==
  \E h \in Outcome(hydrate(World)) :
    Command("getSettings", 0, h, handleGetSettings(h))

CmdUpdateSound ==
  \E enabled \in BOOLEAN :
    \E h \in Outcome(hydrate(World)) :
      Command("updateSound", enabled, h, handleUpdateSound(h, enabled))

CmdSaveCustomPrompt ==
  \E customPrompt \in Prompts :
    \E h \in Outcome(hydrate(World)) :
      Command("saveCustomPrompt", customPrompt, h,
                handleSaveCustomPrompt(h, customPrompt))

\* a request whose action names none of the handlers
CmdOther ==
  \E action \in OtherActions :
    \E h \in Outcome(hydrate(World)) :
      Command("other", action, h, handleOther(h, action))

CmdSaveApiKey ==
  \E apiKey \in ApiKeys, answered \in BOOLEAN :
    \E h \in Outcome(hydrate(World)) :
      Command("saveApiKey", [apiKey |-> apiKey, answered |-> answered], h,
                handleSaveApiKey(h, apiKey, answered))

\* the platform raises onAlarm for a due alarm and schedules its next period
AlarmDue ==
  /\ ~pendingAlarm
  /\ \E a \in alarms :
       /\ a.when <= now
       /\ alarms' = {[a EXCEPT !.when = @ + a.period * MsPerMinute]}
  /\ pendingAlarm' = TRUE
  /\ Env("alarmDue")
  /\ UNCHANGED <<state, isInitialized, geminiModel, store, notifications>>
  /\ EnvUnchanged /\ ClockUnchanged

OnAlarm ==
  /\ pendingAlarm
  /\ pendingAlarm' = FALSE
  /\ \E tab \in BOOLEAN, answered \in BOOLEAN, healed \in BOOLEAN :
       \E w \in Outcome(onAlarm(World, tab, answered, healed)) :
           /\ Record("onAlarm", [tab |-> tab, answered |-> answered],
                     World, w, TRUE, <<>>)
           /\ Commit(w)
           /\ storageReadOk' = w.storageReadOk
           /\ storageWriteOk' = w.storageWriteOk
           /\ alarmCreateOk' = w.alarmCreateOk
  /\ ClockUnchanged

OnButtonClicked ==
  /\ notifications # {}
  /\ \E buttonIndex \in {0, 1} :
       \E r \in Outcome(onButtonClicked(World, buttonIndex)) :
           /\ Record("buttonClicked", buttonIndex, World, r.w, r.ret, <<>>)
           /\ Commit(r.w)
  /\ UNCHANGED pendingAlarm
  /\ EnvUnchanged /\ ClockUnchanged

\* the auto-dismiss timer of a notification
NotificationCleared ==
  /\ notifications # {}
  /\ notifications' = {}
  /\ Env("notificationCleared")
  /\ UNCHANGED <<state, isInitialized, geminiModel, store, alarms, pendingAlarm>>
  /\ EnvUnchanged /\ ClockUnchanged

\* the background process is torn down and started again; a suspended setup
\* ends with it
Restart ==
  /\ isInitialized
  /\ state' = DEFAULT_SETTINGS
  /\ isInitialized' = FALSE
  /\ geminiModel' = "none"
  /\ Note("restart", 0, World, World, TRUE, <<>>)
  /\ inflight' = Idle
  /\ UNCHANGED <<store, alarms, pendingAlarm, notifications>>
  /\ EnvUnchanged /\ ClockUnchanged

\* the platform drops the alarm (browser restart, extension reload)
AlarmClearedExternally ==
  /\ alarms # {}
  /\ alarms' = {}
  /\ Env("alarmCleared")
  /\ UNCHANGED <<state, isInitialized, geminiModel, store, pendingAlarm,
                 notifications>>
  /\ EnvUnchanged /\ ClockUnchanged

Tick ==
  /\ ticks < MaxTicks
  /\ \E d \in TickSteps : now' = now + d
  /\ ticks' = ticks + 1
  /\ Env("tick")
  /\ UNCHANGED <<state, isInitialized, geminiModel, store, alarms, pendingAlarm,
                 notifications>>
  /\ EnvUnchanged

Next ==
  \/ OnStartup
  \/ CmdSnooze
  \/ CmdNotification
  \/ CmdSetNextAlert
  \/ CmdVerifyAlarm
  \/ CmdGetAlarmStatus
  \/ CmdToggle
  \/ CmdGetSettings
  \/ CmdSaveApiKey
  \/ CmdUpdateSound
  \/ CmdSaveCustomPrompt
  \/ CmdOther
  \/ AlarmDue
  \/ OnAlarm
  \/ OnButtonClicked
  \/ NotificationCleared
  \/ Restart
  \/ AlarmClearedExternally
  \/ Tick

Spec == Init /\ [][Next]_vars

\* ------------------------------------------- the methods called directly
\* AlarmManager.setup(minutes), AlarmManager.cleanup() and
\* StorageManager.updateSettings(updates) as the handlers call them: on a
\* hydrated mirror.

Updates ==
  { SetTo([notificationInterval |-> 0]),
    SetTo([notificationInterval |-> 181]),
    SetTo([notificationInterval |-> NonNumeric]),
    SetTo([nextNotificationTime |-> NonNumeric]),
    SetTo([nextNotificationTime |-> EmptyString]),
    SetTo([nextNotificationTime |-> -5]),
    SetNull("isActive"),
    SetNull("notificationInterval"),
    SetNull("maxSnoozeMinutes"),
    SetTo([notificationInterval |-> 20]),
    SetTo([maxSnoozeMinutes |-> 2, notificationInterval |-> 2]),
    SetNull("nextNotificationTime") }

UnitOps ==
  {"setup", "cleanup", "updateSettings", "setupWith", "cleanupWith", "setupAgain",
   "generateMessage"}

Call(op, arg, r) ==
  /\ isInitialized
  /\ last.op \notin UnitOps
  /\ \E res \in Outcome(r) :
       /\ Record(op, arg, World, res.w, res.ret, <<>>)
       /\ Commit(res.w)
  /\ UNCHANGED pendingAlarm
  /\ EnvUnchanged /\ ClockUnchanged

CallSetup ==
  \E minutes \in Minutes : Call("setup", minutes, setup(World, minutes, FALSE, 0))

CallCleanup == Call("cleanup", 0, cleanup(World))

CallUpdateSettings ==
  \E updates \in Updates : Call("updateSettings", updates, updateSettings(World, updates))

\* a direct call is the last step of a run of the program
NextUnit ==
  \/ last.op \notin UnitOps /\ Next
  \/ CallSetup
  \/ CallCleanup
  \/ CallUpdateSettings

SpecUnit == Init /\ [][NextUnit]_vars

\* --------------------------------------------------- the platform failing

PlatformFault ==
  /\ \E r, w, a \in BOOLEAN :
       /\ <<r, w, a>> # <<storageReadOk, storageWriteOk, alarmCreateOk>>
       /\ storageReadOk' = r
       /\ storageWriteOk' = w
       /\ alarmCreateOk' = a
  /\ Record("fault", 0, World, World, TRUE, <<>>)
  /\ UNCHANGED <<state, isInitialized, geminiModel, store, alarms, pendingAlarm,
                 notifications>>
  /\ ClockUnchanged

NextFaults == Next \/ PlatformFault

SpecFaults == Init /\ [][NextFaults]_vars

\* ------------------------------------ the process stopping in a fire chain
\* The awaits of the onAlarm listener after which the service worker can be
\* torn down: the notification is shown; cleanup has cleared the alarm; it
\* has nulled the persisted time as well; setup has created the next alarm
\* and not yet persisted its time.
Stages == {"shown", "cleared", "cleaned", "created"}

\* the fire chain of an initialized, active process from show up to stage
onAlarmUpTo(w, tab, answered, stage) ==
  LET s == show(w, tab, answered)
      t == now + s.state.notificationInterval * MsPerMinute
  IN  IF stage = "shown" THEN s
      ELSE IF stage = "cleared" THEN [s EXCEPT !.alarms = {}]
      ELSE IF stage = "cleaned" THEN cleanup(s).w
      ELSE [cleanup(s).w EXCEPT
              !.alarms = created(s, t, s.state.notificationInterval)]

\* the platform raises onAlarm for a due alarm and schedules its next
\* period, the listener runs up to a stage and the process stops: store,
\* alarm and notification stay, the mirror is gone
OnAlarmStops ==
  /\ ~pendingAlarm /\ isInitialized /\ state.isActive
  /\ \E a \in alarms, tab \in BOOLEAN, answered \in BOOLEAN, stage \in Stages :
       /\ a.when <= now
       /\ \E w \in Outcome(onAlarmUpTo(
                   [World EXCEPT !.alarms =
                      {[a EXCEPT !.when = @ + a.period * MsPerMinute]}],
                   tab, answered, stage)) :
           /\ Record("onAlarmStops", [stage |-> stage], World, w, TRUE, <<>>)
           /\ store' = w.store
           /\ alarms' = w.alarms
           /\ notifications' = w.notifications
  /\ state' = DEFAULT_SETTINGS
  /\ isInitialized' = FALSE
  /\ geminiModel' = "none"
  /\ UNCHANGED pendingAlarm
  /\ EnvUnchanged /\ ClockUnchanged

NextStops == Next \/ OnAlarmStops

SpecStops == Init /\ [][NextStops]_vars

\* ------------------------------------------- the store changed from outside
\* Another context of the extension (a page, the developer tools) writes or
\* removes keys of chrome.storage.local; the platform raises onChanged in the
\* background script for the keys whose value changed.
ExternalChanges ==
  { [set |-> [soundEnabled |-> TRUE], removed |-> {}],
    [set |-> [isActive |-> TRUE, notificationInterval |-> 20], removed |-> {}],
    [set |-> <<>>, removed |-> {"nextNotificationTime"}],
    [set |-> [soundEnabled |-> FALSE], removed |-> {"defaultSnoozeOptions"}] }

\* the keys of an external change whose value it changes
ChangedKeys(s, change) ==
  {k \in DOMAIN change.set : ~Has(s, k) \/ s[k] # change.set[k]}
    \cup {k \in change.removed : Has(s, k)}

\* the store after the change, and the listener run on the event
storageChanged(w, change) ==
  LET kept == DOMAIN w.store \ change.removed
      newStore == Merge([k \in kept |-> w.store[k]], SetTo(change.set))
      keys == ChangedKeys(w.store, change)
  IN  onChanged([w EXCEPT !.store = newStore],
                [set |-> [k \in keys \cap DOMAIN change.set |-> change.set[k]],
                 nulls |-> {}, removed |-> keys \cap change.removed])

StoreChangedExternally ==
  /\ \E change \in ExternalChanges :
       /\ ChangedKeys(store, change) # {}
       /\ \E w \in Outcome(storageChanged(World, change)) :
            /\ Record("storageChanged", change, World, w, TRUE, <<>>)
            /\ Commit(w)
  /\ UNCHANGED pendingAlarm
  /\ EnvUnchanged /\ ClockUnchanged

NextChanges == Next \/ StoreChangedExternally

SpecChanges == Init /\ [][NextChanges]_vars

\* ------------------------------------------- an alarm handled as it is due
\* The platform raises onAlarm for a due alarm, schedules its next period
\* and the listener runs before any other event is handled.
AlarmFires ==
  /\ ~pendingAlarm
  /\ \E a \in alarms, tab \in BOOLEAN, answered \in BOOLEAN :
       /\ a.when <= now
       /\ \E w \in Outcome(onAlarm([World EXCEPT !.alarms =
                                       {[a EXCEPT !.when = @ + a.period * MsPerMinute]}],
                                    tab, answered, TRUE)) :
            /\ Record("onAlarm", [tab |-> tab, answered |-> answered],
                      World, w, TRUE, <<>>)
            /\ Commit(w)
            /\ storageReadOk' = w.storageReadOk
            /\ storageWriteOk' = w.storageWriteOk
            /\ alarmCreateOk' = w.alarmCreateOk
  /\ UNCHANGED pendingAlarm
  /\ ClockUnchanged

NextFires == Next \/ AlarmFires

SpecFires == Init /\ [][NextFires]_vars

\* -------------------------- the methods called directly, the platform failing

\* the nextTime arguments of setup: none (0), a past time, the present, a
\* future time
NextTimes == {0, now - 600, now, now + 90000}

\* AlarmManager.setup(minutes, immediately, nextTime); silent = the platform
\* resolves the creation of the alarm without creating it
CallSetupWith ==
  \E minutes \in Minutes, immediately \in BOOLEAN, nextTime \in NextTimes,
     silent \in BOOLEAN :
    Call("setupWith",
         [minutes |-> minutes, immediately |-> immediately,
          nextTime |-> nextTime, silent |-> silent],
         setup([World EXCEPT !.alarmSilent = silent],
               minutes, immediately, nextTime))

\* AlarmManager.cleanup(); alarmsOk = chrome.alarms.getAll and clear resolve
CallCleanupWith ==
  \E alarmsOk \in BOOLEAN :
    Call("cleanupWith", [alarmsOk |-> alarmsOk],
         cleanup([World EXCEPT !.alarmReadOk = alarmsOk]))

\* setup(minutes) called a second time, right after a setup(minutes) that
\* returned true
CallSetupAgain ==
  /\ last.op = "setupWith" /\ last.ok
  /\ ~last.arg.immediately /\ last.arg.nextTime = 0 /\ ~last.arg.silent
  /\ \E r \in Outcome(setup(World, last.arg.minutes, FALSE, 0)) :
         /\ Record("setupAgain", last.arg, World, r.w, r.ret, <<>>)
         /\ Commit(r.w)
  /\ UNCHANGED pendingAlarm
  /\ EnvUnchanged /\ ClockUnchanged

\* geminiManager.generateMessage(url, title, timeString), the backend ending
\* in outcome
CallGenerateMessage ==
  \E outcome \in Outcomes :
    LET g == generateMessage(World, outcome)
    IN  Call("generateMessage", [outcome |-> outcome],
             [w |-> g.w, ret |-> g.ret # NoMessage])

NextUnitFaults ==
  \/ last.op \notin UnitOps /\ NextFaults
  \/ CallSetupWith
  \/ CallCleanupWith
  \/ CallSetupAgain
  \/ CallGenerateMessage

SpecUnitFaults == Init /\ [][NextUnitFaults]_vars

\* ------------------------------------- a setup interleaved with commands
\* Every await of AlarmManager.setup hands the event loop to the handlers of
\* other messages. The toggle command with isActive = true and the
\* initialize of onStartup are followed up to the first await of their setup
\* (await this.cleanup()), then to the await of chrome.alarms.create, then to
\* the end; the commands of Next run in between.

ToggleOnStarts ==
  /\ inflight = Idle
  /\ \E h \in Outcome(hydrate(World)) :
     \E u \in Outcome(updateSettings(h, SetTo([isActive |-> TRUE]))) :
         /\ u.ret
         /\ setupAdmits(u.w, u.w.state.notificationInterval, 0)
         /\ Note("toggleStarts", TRUE, h, u.w, TRUE, <<>>)
         /\ Commit(u.w)
         /\ inflight' = [pc |-> "cleanup",
                         minutes |-> u.w.state.notificationInterval,
                         immediately |-> TRUE, by |-> "toggle"]
  /\ UNCHANGED pendingAlarm
  /\ EnvUnchanged /\ ClockUnchanged

InitializeStarts ==
  /\ inflight = Idle
  /\ \E b \in Outcome(initializeBegins(World)) :
         /\ b.ret
         /\ setupAdmits(b.w, b.w.state.notificationInterval, 0)
         /\ Note("initializeStarts", 0, World, b.w, TRUE, <<>>)
         /\ Commit(b.w)
         /\ inflight' = [pc |-> "cleanup",
                         minutes |-> b.w.state.notificationInterval,
                         immediately |-> FALSE, by |-> "initialize"]
  /\ UNCHANGED pendingAlarm
  /\ EnvUnchanged /\ ClockUnchanged

SetupCleansUp ==
  /\ inflight.pc = "cleanup"
  /\ \E c \in Outcome(cleanup(World)) :
         /\ Note("setupCleansUp", 0, World, c.w, c.ret, <<>>)
         /\ Commit(c.w)
  /\ inflight' = [inflight EXCEPT !.pc = "create"]
  /\ UNCHANGED pendingAlarm
  /\ EnvUnchanged /\ ClockUnchanged

SetupArms ==
  /\ inflight.pc = "create"
  /\ \E r \in Outcome(setupArm(World, inflight.minutes, inflight.immediately, 0)) :
         /\ Note("setupArms", 0, World, r.w, r.ret, [success |-> TRUE])
         /\ Commit(r.w)
  /\ inflight' = Idle
  /\ UNCHANGED pendingAlarm
  /\ EnvUnchanged /\ ClockUnchanged

NextInterleaved ==
  \/ Next
  \/ ToggleOnStarts
  \/ InitializeStarts
  \/ SetupCleansUp
  \/ SetupArms

SpecInterleaved == Init /\ [][NextInterleaved]_vars

\* -------------------------------------------------------------- withRetry
\* One call withRetry(operation, retryCount), followed through its loop.
\* throws[a] = the invocation of operation in attempt a throws; that
\* invocation returns the value a + 1 or throws the error a + 1. slept lists
\* the delays awaited, lastError = 0 is the undefined of a loop never entered.

RECURSIVE Pow2(_)
Pow2(k) == IF k = 0 THEN 1 ELSE 2 * Pow2(k - 1)

\* A delay that does not grow.
backoffConstant(retryDelay, attempt) == retryDelay

\* state.retryDelay * Math.pow(2, attempt)
backoff(retryDelay, attempt) == retryDelay * Pow2(attempt)

RetryDelays == {250, 1000}

\* the state at the entry of the call
InitRetry ==
  /\ \E retryCount \in 0 .. MaxRetries, retryDelay \in RetryDelays,
        throws \in [0 .. MaxRetries - 1 -> BOOLEAN] :
       retry = [NoRetry EXCEPT !.pc = "loop", !.retryCount = retryCount,
                               !.retryDelay = retryDelay, !.throws = throws]
  /\ gemini = NoInit
  /\ updating = NoUpdates
  /\ state = DEFAULT_SETTINGS
  /\ isInitialized = FALSE
  /\ geminiModel = "none"
  /\ store = <<>>
  /\ alarms = {}
  /\ pendingAlarm = FALSE
  /\ notifications = {}
  /\ inflight = Idle
  /\ popup = Closed
  /\ now = StartTime
  /\ ticks = 0
  /\ storageReadOk = TRUE
  /\ storageWriteOk = TRUE
  /\ alarmCreateOk = TRUE
  /\ steps = 0
  /\ last = [ op |-> "start" ]

\* one pass of the for loop: operation is invoked; its result is returned, or
\* its error is kept and, unless this was the last attempt, the delay awaited
RetryAttempt ==
  /\ retry.pc = "loop" /\ retry.attempt < retry.retryCount
  /\ retry' =
       IF retry.throws[retry.attempt]
         THEN [retry EXCEPT
                 !.invoked = @ + 1,
                 !.lastError = retry.attempt + 1,
                 !.slept = IF retry.attempt < retry.retryCount - 1
                             THEN Append(@, backoff(retry.retryDelay,
                                                    retry.attempt))
                             ELSE @,
                 !.attempt = @ + 1]
         ELSE [retry EXCEPT !.invoked = @ + 1, !.result = retry.attempt + 1,
                            !.pc = "returned"]
  /\ UNCHANGED <<program, gemini, updating>>

\* the loop is over: throw lastError
RetryGivesUp ==
  /\ retry.pc = "loop" /\ retry.attempt >= retry.retryCount
  /\ retry' = [retry EXCEPT !.pc = "threw"]
  /\ UNCHANGED <<program, gemini, updating>>

NextRetry == RetryAttempt \/ RetryGivesUp

SpecRetry == InitRetry /\ [][NextRetry]_vars

\* ---------------------------------------------------- GeminiManager.init
\* The calls of init(apiKey), followed await by await. A call either hands
\* out the promise in this.initPromise or starts the async body, which runs
\* without a pause to its first await: an empty key returns false at once
\* (ahead of the try, so its finally does not run), any other key constructs
\* the client and the model and is suspended in chrome.storage.local.set.

\* A test of this.initPromise that never finds one.
hasInitPromiseNever(g) == FALSE

\* if (this.initPromise)
hasInitPromise(g) == g.initPromise # 0

\* the promises of g whose async body is between its start and its end
InFlight(g) == DOMAIN g.running

\* the keys init is called with: none, blanks only, two keys that work
InitKeys == ApiKeys \cup {"  ", "k2"}

\* apiKey?.trim()
trim(apiKey) == IF apiKey = "  " THEN "" ELSE apiKey

InitCall ==
  /\ Len(gemini.calls) < MaxCalls
  /\ \E apiKey \in InitKeys :
       LET p == Len(gemini.calls) + 1
           before == InFlight(gemini)
       IN  gemini' =
             IF hasInitPromise(gemini)
               THEN [gemini EXCEPT !.calls =
                       Append(@, [apiKey |-> apiKey, inFlight |-> before,
                                  promise |-> gemini.initPromise,
                                  constructed |-> FALSE])]
             ELSE IF trim(apiKey) = ""
               THEN [gemini EXCEPT
                       !.model = "none",
                       !.initPromise = p,
                       !.outcome = @ @@ (p :> FALSE),
                       !.calls =
                         Append(@, [apiKey |-> apiKey, inFlight |-> before,
                                    promise |-> p, constructed |-> FALSE])]
               ELSE [gemini EXCEPT
                       !.model = apiKey,
                       !.constructions = @ + 1,
                       !.initPromise = p,
                       !.running = @ @@ (p :> "set true"),
                       !.calls =
                         Append(@, [apiKey |-> apiKey, inFlight |-> before,
                                    promise |-> p, constructed |-> TRUE])]
  /\ UNCHANGED <<program, retry, updating>>

\* await chrome.storage.local.set({ geminiInitialized: true }) resolves:
\* return true, and the finally clears this.initPromise
InitSucceeds ==
  /\ \E p \in DOMAIN gemini.running :
       /\ gemini.running[p] = "set true"
       /\ gemini' = [gemini EXCEPT
                       !.initPromise = 0,
                       !.running = [q \in DOMAIN @ \ {p} |-> @[q]],
                       !.outcome = @ @@ (p :> TRUE)]
  /\ UNCHANGED <<program, retry, updating>>

\* that set rejects: the catch drops the model and is suspended in
\* chrome.storage.local.set({ geminiInitialized: false })
InitCatches ==
  /\ \E p \in DOMAIN gemini.running :
       /\ gemini.running[p] = "set true"
       /\ gemini' = [gemini EXCEPT !.model = "none",
                                   !.running = [@ EXCEPT ![p] = "set false"]]
  /\ UNCHANGED <<program, retry, updating>>

\* the set of the catch resolves or rejects: return false or the rejection,
\* and the finally clears this.initPromise
InitFails ==
  /\ \E p \in DOMAIN gemini.running :
       /\ gemini.running[p] = "set false"
       /\ gemini' = [gemini EXCEPT
                       !.initPromise = 0,
                       !.running = [q \in DOMAIN @ \ {p} |-> @[q]],
                       !.outcome = @ @@ (p :> FALSE)]
  /\ UNCHANGED <<program, retry, updating>>

NextInit == InitCall \/ InitSucceeds \/ InitCatches \/ InitFails

SpecInit == Init /\ [][NextInit]_vars

\* ------------------------------------------ updateSettings, await by await
\* Calls of StorageManager.updateSettings in a hydrated process, followed
\* through their await: a call builds newState from the mirror it finds and
\* is suspended in chrome.storage.local.set; the write lands in the store
\* and the platform raises its change event; the call resumes and assigns
\* newState to the mirror.  The listener runs on an event at any time after
\* the write.

MaxUpdates == 2

UpdateArgs ==
  { SetTo([soundEnabled |-> TRUE]),
    SetTo([notificationInterval |-> 20]),
    SetTo([nextNotificationTime |-> StartTime + MsPerMinute]),
    SetTo([notificationInterval |-> 0]) }

\* what the calls of updateSettings leave alone
settled == <<isInitialized, geminiModel, alarms, pendingAlarm, notifications,
             now, ticks, storageReadOk, alarmCreateOk, steps, last, inflight,
             popup, retry, gemini>>

\* the process after its initialization
InitUpdates ==
  /\ retry = NoRetry
  /\ gemini = NoInit
  /\ updating = NoUpdates
  /\ state = [DEFAULT_SETTINGS EXCEPT !.notificationInterval = 3]
               @@ [nextNotificationTime |-> StartTime + 3 * MsPerMinute]
  /\ isInitialized = TRUE
  /\ geminiModel = "none"
  /\ store = [nextNotificationTime |-> StartTime + 3 * MsPerMinute]
  /\ alarms = {[when |-> StartTime + 3 * MsPerMinute, period |-> 3]}
  /\ pendingAlarm = FALSE
  /\ notifications = {}
  /\ inflight = Idle
  /\ popup = Closed
  /\ now = StartTime
  /\ ticks = 0
  /\ storageReadOk = TRUE
  /\ storageWriteOk = TRUE
  /\ alarmCreateOk = TRUE
  /\ steps = 0
  /\ last = [ op |-> "start" ]

\* state = newState
resumedState(s, call) == call.newState

\* the call up to its await: newState is built and validated, the write begun
UpdateCalled ==
  /\ Len(updating.calls) < MaxUpdates
  /\ \E updates \in UpdateArgs :
       LET newState == Merge(state, updates)
       IN  updating' =
             [updating EXCEPT !.calls =
                Append(@, [updates |-> updates, newState |-> newState,
                           pc |-> IF validateSettings(newState)
                                    THEN "set" ELSE "returned",
                           ret |-> FALSE])]
  /\ UNCHANGED <<state, store, storageWriteOk, settled>>

\* chrome.storage.local.set of a suspended call: the store takes the items
\* and the change event is raised, or the write fails on every retry and the
\* call returns false
UpdateWrites ==
  /\ \E i \in DOMAIN updating.calls :
       LET call == updating.calls[i]
           setKeys == {k \in DOMAIN call.updates.set :
                         ~Has(store, k) \/ store[k] # call.updates.set[k]}
           nullKeys == {k \in call.updates.del : Has(store, k)}
           changes == [set |-> [k \in setKeys |-> call.updates.set[k]],
                       nulls |-> nullKeys, removed |-> {}]
       IN  /\ call.pc = "set"
           /\ IF storageWriteOk
                THEN /\ store' = Merge(store, call.updates)
                     /\ updating' =
                          [updating EXCEPT
                             !.calls[i].pc = "written",
                             !.events = IF setKeys \cup nullKeys = {} THEN @
                                        ELSE Append(@, changes)]
                ELSE /\ store' = store
                     /\ updating' = [updating EXCEPT !.calls[i].pc = "returned"]
  /\ UNCHANGED <<state, storageWriteOk, settled>>

\* the call resumes after its await: state = newState; return true
UpdateResumes ==
  /\ \E i \in DOMAIN updating.calls :
       /\ updating.calls[i].pc = "written"
       /\ state' = resumedState(state, updating.calls[i])
       /\ updating' = [updating EXCEPT !.calls[i].pc = "returned",
                                       !.calls[i].ret = TRUE]
  /\ UNCHANGED <<store, storageWriteOk, settled>>

\* the listener runs on the oldest change event
ChangeObserved ==
  /\ updating.events # <<>>
  /\ state' = onChanged([state |-> state], Head(updating.events)).state
  /\ updating' = [updating EXCEPT !.events = Tail(@)]
  /\ UNCHANGED <<store, storageWriteOk, settled>>

\* chrome.storage.local.set begins or ceases to fail
StorageWriteFlips ==
  /\ storageWriteOk' = ~storageWriteOk
  /\ UNCHANGED <<state, store, updating, settled>>

NextUpdates ==
  \/ UpdateCalled
  \/ UpdateWrites
  \/ UpdateResumes
  \/ ChangeObserved
  \/ StorageWriteFlips

SpecUpdates == InitUpdates /\ [][NextUpdates]_vars

\* ------------------------------------------------------------- the popup
\* popup.js: the page loads its settings when it opens, runs a one second
\* countdown timer, toggles the reminders and clears its timer on unload.

\* function startCountdown(): clearInterval of the old timer, then
\* setInterval(updateUIElements, 1000)
startCountdown(p) == [p EXCEPT !.loops = (@ \ {"countdown"}) \cup {"countdown"}]

\* if (countdownInterval) clearInterval(countdownInterval)
stopCountdown(p) == [p EXCEPT !.loops = @ \ {"countdown"}]

\* DOMContentLoaded: loadInitialSettings() up to chrome.runtime.sendMessage
PopupOpens ==
  /\ ~popup.open
  /\ popup' = [Closed EXCEPT !.open = TRUE, !.isLoading = TRUE,
                             !.sent = <<"getSettings">>, !.awaiting = TRUE]
  /\ Log("popupOpens", 0, World, World, TRUE, <<>>)
  /\ UNCHANGED <<state, isInitialized, geminiModel, store, alarms, pendingAlarm,
                 notifications, inflight>>
  /\ EnvUnchanged /\ ClockUnchanged

\* the background answers getSettings and the callback of
\* loadInitialSettings runs
PopupLoaded ==
  /\ popup.open /\ popup.awaiting
  /\ \E h \in Outcome(hydrate(World)) :
     \E r \in Outcome(handleGetSettings(h)) :
     LET p == [popup EXCEPT !.isLoading = FALSE, !.awaiting = FALSE]
     IN  /\ Log("popupLoaded", 0, h, r.w, r.resp.success, r.resp)
         /\ Commit(r.w)
         /\ popup' = IF r.resp.success
                       THEN startCountdown(
                              [p EXCEPT !.notificationsActive =
                                          r.resp.settings.isActive])
                       ELSE p
  /\ UNCHANGED <<pendingAlarm, inflight>>
  /\ EnvUnchanged /\ ClockUnchanged

\* setInterval(updateUIElements, 1000) fires: the page is drawn again
CountdownFires ==
  /\ popup.open /\ "countdown" \in popup.loops
  /\ Log("countdownFires", 0, World, World, TRUE, <<>>)
  /\ UNCHANGED <<state, isInitialized, geminiModel, store, alarms, pendingAlarm,
                 notifications, inflight, popup>>
  /\ EnvUnchanged /\ ClockUnchanged

\* toggleNotificationsBtn click, the toggle command and its callback
PopupToggles ==
  /\ popup.open /\ ~popup.awaiting
  /\ \E h \in Outcome(hydrate(World)) :
     \E r \in Outcome(handleToggle(h, ~popup.notificationsActive)) :
     LET isActive == ~popup.notificationsActive
         p == [popup EXCEPT !.sent = Append(@, "toggle")]
     IN  /\ Log("popupToggles", isActive, h, r.w, r.resp.success, r.resp)
         /\ Commit(r.w)
         /\ popup' = IF ~r.resp.success THEN p
                     ELSE IF isActive
                       THEN startCountdown(
                              [p EXCEPT !.notificationsActive = TRUE])
                       ELSE stopCountdown(
                              [p EXCEPT !.notificationsActive = FALSE])
  /\ UNCHANGED <<pendingAlarm, inflight>>
  /\ EnvUnchanged /\ ClockUnchanged

\* window unload: the listener clears the countdown timer, the page ends
PopupCloses ==
  /\ popup.open
  /\ popup' = [stopCountdown(popup) EXCEPT !.open = FALSE, !.awaiting = FALSE]
  /\ Log("popupCloses", 0, World, World, TRUE, <<>>)
  /\ UNCHANGED <<state, isInitialized, geminiModel, store, alarms, pendingAlarm,
                 notifications, inflight>>
  /\ EnvUnchanged /\ ClockUnchanged

NextPopup ==
  \/ Next
  \/ PopupOpens
  \/ PopupLoaded
  \/ CountdownFires
  \/ PopupToggles
  \/ PopupCloses

SpecPopup == Init /\ [][NextPopup]_vars

\* ------------------------------------------------------------ the claims

\* the getAlarmStatus command, sent in the current state
StatusNow == handleGetAlarmStatus(hydrate(World))

\* the toggle command with isActive = TRUE, sent in the current state
ToggleOnNow == handleToggle(hydrate(World), TRUE)

ValidMinutes(minutes, s) == minutes > 0 /\ minutes <= s.maxSnoozeMinutes

\* C1: setup(minutes) with valid minutes and isActive true, followed at once
\* by getAlarmStatus: the response carries a nextNotificationTime within one
\* second of the time of the setup call + minutes * 60000.
C1_SetupThenStatus ==
  ( /\ last.op = "setup"
    /\ last.pre.state.isActive
    /\ ValidMinutes(last.arg, last.pre.state) )
  => /\ Has(StatusNow.resp, "nextNotificationTime")
     /\ Abs(StatusNow.resp.nextNotificationTime
            - (last.at + last.arg * MsPerMinute)) <= Tolerance

C1_Witness ==
  /\ last.op = "setup" /\ last.arg = 20 /\ last.ok
  /\ last.pre.state.isActive
  /\ last.pre.state.notificationInterval = 3
  /\ StatusNow.resp.nextNotificationTime = last.at + 20 * MsPerMinute

\* C2 as claimed: cleanup() followed at once by getAlarmStatus, from any
\* reachable state: the response carries no nextNotificationTime (null) and
\* afterwards no alarm exists.
C2_CleanupThenStatus ==
  last.op = "cleanup"
  => /\ ~Has(StatusNow.resp, "nextNotificationTime")
     /\ StatusNow.w.alarms = {}

\* C2 as amended: the same, from the states in which isActive is false and
\* for a cleanup() that returned true.
C2_CleanupThenStatusInactive ==
  (last.op = "cleanup" /\ last.ok /\ ~last.pre.state.isActive)
  => /\ ~Has(StatusNow.resp, "nextNotificationTime")
     /\ StatusNow.w.alarms = {}

C2_Witness ==
  /\ last.op = "cleanup" /\ last.ok
  /\ ~last.pre.state.isActive
  /\ Has(last.pre.state, "nextNotificationTime")
  /\ ~Has(StatusNow.resp, "nextNotificationTime")

\* The persisted nextNotificationTime of world b is a timestamp before t.
PastTime(b, t) ==
  /\ Has(b.state, "nextNotificationTime")
  /\ Has(b.store, "nextNotificationTime")
  /\ b.store.nextNotificationTime = b.state.nextNotificationTime
  /\ b.state.nextNotificationTime > 0
  /\ b.state.nextNotificationTime < t

\* C3: verifyAlarm with the alarm absent, isActive true and a persisted
\* nextNotificationTime in the past answers needsUpdate = true, and an alarm
\* is armed when it has answered.
C3_VerifyAlarmRearms ==
  ( /\ last.op = "verifyAlarm"
    /\ last.pre.isInitialized
    /\ last.pre.alarms = {}
    /\ last.pre.state.isActive
    /\ PastTime(last.pre, last.at) )
  => /\ last.resp.success /\ last.resp.needsUpdate
     /\ alarms # {}

\* the alarm of world b is more than the tolerance away from the persisted time
Mismatch(b) ==
  /\ b.alarms # {}
  /\ \A a \in b.alarms :
       Abs(a.when - NumOf(b.state, "nextNotificationTime")) > Tolerance

\* C4 as claimed: on a mismatch verifyAlarm keeps the persisted
\* nextNotificationTime and re-creates the alarm at it; the response has
\* needsUpdate = true and correctTime = the persisted value.
C4_PersistedTimeWins ==
  ( /\ last.op = "verifyAlarm"
    /\ last.pre.isInitialized
    /\ Has(last.pre.state, "nextNotificationTime")
    /\ Mismatch(last.pre) )
  => /\ Has(state, "nextNotificationTime")
     /\ state.nextNotificationTime = last.pre.state.nextNotificationTime
     /\ \A a \in alarms : a.when = last.pre.state.nextNotificationTime
     /\ alarms # {}
     /\ last.resp.needsUpdate
     /\ last.resp.correctTime = last.pre.state.nextNotificationTime

\* C4 as amended: on a mismatch verifyAlarm keeps the alarm and overwrites the
\* persisted nextNotificationTime (mirror and store) with the alarm's fire
\* time; the response has needsUpdate = true and correctTime = that fire time.
C4_AlarmTimeWins ==
  ( /\ last.op = "verifyAlarm"
    /\ last.pre.isInitialized
    /\ Mismatch(last.pre) )
  => /\ alarms = last.pre.alarms
     /\ \A a \in alarms :
          /\ Has(state, "nextNotificationTime")
          /\ state.nextNotificationTime = a.when
          /\ Has(store, "nextNotificationTime")
          /\ store.nextNotificationTime = a.when
          /\ last.resp.correctTime = a.when
     /\ last.resp.success /\ last.resp.needsUpdate

C4_Witness ==
  /\ last.op = "verifyAlarm"
  /\ last.pre.isInitialized
  /\ Has(last.pre.state, "nextNotificationTime")
  /\ Mismatch(last.pre)
  /\ last.resp.needsUpdate
  /\ \E a \in alarms : state.nextNotificationTime = a.when

\* the world after a toggle(true): active, with exactly one alarm, whose period
\* is the notificationInterval and whose fire time is the persisted
\* nextNotificationTime of the mirror and of the store
ActiveAndArmed(w) ==
  /\ w.state.isActive /\ w.store.isActive
  /\ Cardinality(w.alarms) = 1
  /\ \A a \in w.alarms :
       /\ a.period = w.state.notificationInterval
       /\ Has(w.state, "nextNotificationTime")
       /\ w.state.nextNotificationTime = a.when
       /\ Has(w.store, "nextNotificationTime")
       /\ w.store.nextNotificationTime = a.when

\* C5: toggle(false) followed by toggle(true) ends, after both responses,
\* with isActive true and an alarm armed whose period is the
\* notificationInterval and whose fire time is the persisted
\* nextNotificationTime; so does every toggle(true) sent while inactive.
C5_ToggleOffOn ==
  /\ (last.op = "toggle" /\ last.arg = FALSE /\ last.ok)
     => (ToggleOnNow.resp.success /\ ActiveAndArmed(ToggleOnNow.w))
  /\ (last.op = "toggle" /\ last.arg = TRUE /\ ~last.hyd.isActive)
     => (last.ok /\ ActiveAndArmed(World))

C5_Witness ==
  /\ last.op = "toggle" /\ last.arg = TRUE /\ last.ok
  /\ ~last.hyd.isActive
  /\ state.isActive
  /\ alarms = {[when |-> last.at, period |-> state.notificationInterval]}
  /\ state.nextNotificationTime = last.at

\* the merged settings s break a validation rule as the claim lists them
Violates(s) ==
  \/ \E k \in REQUIRED_SETTINGS : ~Has(s, k)
  \/ ~IsNumber(s.notificationInterval)
  \/ s.notificationInterval <= 0
  \/ s.notificationInterval > s.maxSnoozeMinutes
  \/ /\ Has(s, "nextNotificationTime")
     /\ \/ ~IsNumber(s.nextNotificationTime)
        \/ s.nextNotificationTime < 0

\* C6: updateSettings(updates) whose merge with the current settings violates
\* validation (notificationInterval not a number, <= 0 or > maxSnoozeMinutes;
\* nextNotificationTime non-numeric or negative; a required field null)
\* returns false, attempts no storage write and leaves the mirror and the
\* store as they were.
C6_InvalidUpdateRejected ==
  (last.op = "updateSettings" /\ Violates(Merge(last.pre.state, last.arg)))
  => /\ ~last.ok
     /\ last.sets = 0
     /\ state = last.pre.state
     /\ store = last.pre.store

\* the notificationInterval of settings s is a number in (0, maxSnoozeMinutes]
IntervalInRange(s) ==
  /\ Has(s, "notificationInterval") /\ Has(s, "maxSnoozeMinutes")
  /\ IsNumber(s.notificationInterval)
  /\ 0 < s.notificationInterval
  /\ s.notificationInterval <= s.maxSnoozeMinutes

\* the settings a hydration reads from the store: the defaults under the
\* stored keys
Stored == Merge(DEFAULT_SETTINGS, SetTo(store))

SnoozedMinutes ==
  IF last.op = "snooze" THEN last.arg
  ELSE last.hyd.defaultSnoozeOptions[last.arg + 1]

\* C8: a successful snooze(minutes) turns the pair [lo, hi] into exactly
\* [min(minutes, hi), max(minutes, hi)], in the mirror and in the store.
C8_SnoozePair ==
  (last.op \in {"snooze", "buttonClicked"} /\ last.ok)
  => LET hi == last.hyd.defaultSnoozeOptions[2]
         pair == << Min(SnoozedMinutes, hi), Max(SnoozedMinutes, hi) >>
     IN  /\ state.defaultSnoozeOptions = pair
         /\ Has(store, "defaultSnoozeOptions")
         /\ store.defaultSnoozeOptions = pair

C8_Witness ==
  /\ last.op = "snooze" /\ last.arg = 20 /\ last.ok
  /\ last.hyd.defaultSnoozeOptions = <<5, 15>>
  /\ state.defaultSnoozeOptions = <<15, 20>>
  /\ store.defaultSnoozeOptions = <<15, 20>>

\* options has exactly two entries, in non-decreasing order
SortedPair(options) ==
  /\ Len(options) = 2
  /\ options[1] <= options[2]

\* C9: defaultSnoozeOptions always has exactly two entries with
\* options[0] <= options[1], in the mirror and in the store.
C9_OptionsSortedPair ==
  /\ SortedPair(state.defaultSnoozeOptions)
  /\ SortedPair(Stored.defaultSnoozeOptions)

C9_Witness ==
  /\ last.op \in {"snooze", "setNextAlert", "buttonClicked"} /\ last.ok
  /\ last.hyd.defaultSnoozeOptions # <<5, 15>>
  /\ state.defaultSnoozeOptions # last.hyd.defaultSnoozeOptions
  /\ Has(store, "defaultSnoozeOptions")
  /\ store.defaultSnoozeOptions = state.defaultSnoozeOptions

\* settings s hold a nextNotificationTime within the tolerance of t
TimeNear(s, t) ==
  /\ Has(s, "nextNotificationTime")
  /\ IsNumber(s.nextNotificationTime)
  /\ Abs(s.nextNotificationTime - t) <= Tolerance

\* C10: initialize() on an empty store returns true and leaves isActive true
\* (in the mirror and in what a hydration reads from the store, which holds
\* no isActive key yet), a nextNotificationTime within the tolerance of the
\* initialization time + 3 * 60000 in the mirror and in the store, and
\* exactly one alarm, at that time, with period 3.
C10_FreshInstall ==
  (last.op = "initialize" /\ DOMAIN last.pre.store = {})
  => /\ last.ok
     /\ isInitialized
     /\ state.isActive /\ Stored.isActive
     /\ TimeNear(state, last.at + 3 * MsPerMinute)
     /\ TimeNear(store, last.at + 3 * MsPerMinute)
     /\ alarms = {[when |-> state.nextNotificationTime, period |-> 3]}

C10_Witness ==
  /\ last.op = "initialize" /\ DOMAIN last.pre.store = {} /\ last.ok
  /\ state.nextNotificationTime = last.at + 3 * MsPerMinute
  /\ store.nextNotificationTime = last.at + 3 * MsPerMinute
  /\ Cardinality(alarms) = 1

\* the world the step recorded in last started from, and the world its
\* handler worked on after the lazy initialization
WorldBefore ==
  [ state |-> last.pre.state, isInitialized |-> last.pre.isInitialized,
    geminiModel |-> last.pre.geminiModel, store |-> last.pre.store,
    alarms |-> last.pre.alarms, notifications |-> last.pre.notifications,
    storageReadOk |-> last.pre.storageReadOk,
    storageWriteOk |-> last.pre.storageWriteOk,
    alarmCreateOk |-> last.pre.alarmCreateOk,
    sets |-> 0, generations |-> 0, resets |-> 0, clears |-> 0,
    calls |-> <<>>, alarmSilent |-> FALSE, alarmReadOk |-> TRUE ]

HydratedBefore == hydrate(WorldBefore)

\* C11: saveApiKey with a key that validateApiKey turns down answers
\* success = false with a non-empty error, writes nothing to the store and
\* leaves the settings (mirror and store, apiKey included, also when it was
\* null) and the model handle as they were.
C11_InvalidKeyChangesNothing ==
  ( /\ last.op = "saveApiKey"
    /\ last.arg.apiKey # ""
    /\ ~last.arg.answered )
  => /\ ~last.resp.success
     /\ last.resp.error # ""
     /\ last.sets = HydratedBefore.sets
     /\ state = HydratedBefore.state
     /\ store = HydratedBefore.store
     /\ geminiModel = HydratedBefore.geminiModel
     /\ alarms = HydratedBefore.alarms

C11_Witness ==
  /\ last.op = "saveApiKey" /\ last.arg.apiKey = "k1" /\ ~last.arg.answered
  /\ last.pre.isInitialized
  /\ ~Has(last.pre.state, "apiKey")
  /\ ~last.resp.success
  /\ ~Has(state, "apiKey") /\ ~Has(store, "apiKey")
  /\ geminiModel = "none"

\* C12: an alarm that fires while apiKey is unset, no model handle exists and
\* isActive is true presents a notification whose body is the fallback
\* message, without a generation call, and whose buttons are the two current
\* defaultSnoozeOptions in order.
C12_FallbackWithoutKey ==
  ( /\ last.op = "onAlarm"
    /\ HydratedBefore.state.isActive
    /\ ~Has(HydratedBefore.state, "apiKey")
    /\ HydratedBefore.geminiModel = "none" )
  => /\ last.generations = 0
     /\ notifications =
          {[ body |-> "fallback",
             buttons |-> << HydratedBefore.state.defaultSnoozeOptions[1],
                            HydratedBefore.state.defaultSnoozeOptions[2] >> ]}

C12_Witness ==
  /\ last.op = "onAlarm" /\ last.arg.tab /\ last.arg.answered
  /\ last.pre.isInitialized /\ last.pre.state.isActive
  /\ ~Has(last.pre.state, "apiKey") /\ last.pre.geminiModel = "none"
  /\ last.pre.state.defaultSnoozeOptions # <<5, 15>>
  /\ \E n \in notifications :
       n.body = "fallback" /\ n.buttons = last.pre.state.defaultSnoozeOptions

\* C13: every request is answered with a record that has a boolean success
\* field; a request whose action is not the name of a handler is answered
\* success = false with an error string and changes nothing.
C13_UniformEnvelope ==
  /\ last.op \in { "snooze", "notification", "setNextAlert", "verifyAlarm",
                    "getAlarmStatus", "toggle", "getSettings", "saveApiKey",
                    "updateSound", "saveCustomPrompt", "other" }
     => (Has(last.resp, "success") /\ last.resp.success \in BOOLEAN)
  /\ last.op = "other"
     => /\ Has(last.resp, "success") /\ ~last.resp.success
        /\ Has(last.resp, "error") /\ last.resp.error # ""
        /\ state = HydratedBefore.state
        /\ store = HydratedBefore.store
        /\ alarms = HydratedBefore.alarms

\* settings s without the key nextNotificationTime
WithoutTime(s) == [k \in DOMAIN s \ {"nextNotificationTime"} |-> s[k]]

\* every platform call succeeds in the current state
PlatformOk == storageReadOk /\ storageWriteOk /\ alarmCreateOk

\* a step of the fire chain recorded in last failed: the initialization
\* returned false, or the final setup() did
ChainFailed ==
  LET w == WorldBefore
      i == IF ~w.isInitialized THEN initialize(w) ELSE Ret(w, TRUE)
      c == cleanup(show(i.w, last.arg.tab, last.arg.answered))
  IN  ~i.ret \/ ~setupDefault(c.w).ret

\* C14: when a step of the fire chain has failed and the platform calls of
\* the recovery succeed, the onAlarm handler ends with the settings (mirror
\* and store) at the compiled-in defaults, but for the nextNotificationTime
\* of the alarm it has armed.
C14_RecoveryRearms ==
  (last.op = "onAlarm" /\ ChainFailed /\ PlatformOk)
  => /\ WithoutTime(state) = DEFAULT_SETTINGS
     /\ WithoutTime(store) = DEFAULT_SETTINGS
     /\ Cardinality(alarms) = 1
     /\ \A a \in alarms :
          /\ Has(state, "nextNotificationTime")
          /\ state.nextNotificationTime = a.when
          /\ Has(store, "nextNotificationTime")
          /\ store.nextNotificationTime = a.when

C14_Witness ==
  /\ last.op = "onAlarm" /\ ChainFailed /\ PlatformOk
  /\ last.pre.isInitialized /\ last.pre.state.isActive
  /\ ~last.pre.alarmCreateOk
  /\ last.resets = 1
  /\ WithoutTime(state) = DEFAULT_SETTINGS
  /\ alarms = {[when |-> state.nextNotificationTime, period |-> 3]}

\* store s holds a setting of the user: a value other than the default, or a
\* key that has no default
Customized(s) ==
  \E k \in DOMAIN s \ {"nextNotificationTime", "geminiInitialized"} :
    k \notin DOMAIN DEFAULT_SETTINGS \/ s[k] # DEFAULT_SETTINGS[k]

\* the step recorded in last cleared a store that held settings of the user
Discarded == last.clears > 0 /\ Customized(last.pre.store)

\* the step recorded in last ran the recovery of the fire chain
RecoveryRan == last.op = "onAlarm" /\ last.resets > 0

\* the step recorded in last ran an initialization, and it failed
InitializationFailed ==
  ~last.pre.isInitialized /\ ~initialize(WorldBefore).ret

\* C15 as claimed: the persisted settings of the user are discarded for the
\* defaults by the recovery of the fire chain only.
C15_OnlyRecoveryDiscards == Discarded => RecoveryRan

\* C15 as amended: the persisted settings of the user are discarded for the
\* defaults only by the recovery of the fire chain and by an initialization
\* that fails; no command body and no failed write does it.
C15_OnlyRecoveryOrFailedInitDiscards ==
  Discarded => (RecoveryRan \/ InitializationFailed)

C15_Witness ==
  /\ Discarded /\ InitializationFailed /\ ~RecoveryRan
  /\ last.op = "getSettings"
  /\ last.pre.store.notificationInterval = 20
  /\ store.notificationInterval = 3

\* the names of the commands of MessageHandler.handle that the model issues
CommandNames ==
  { "snooze", "notification", "setNextAlert", "verifyAlarm", "getAlarmStatus",
    "toggle", "getSettings", "updateSound", "saveCustomPrompt", "saveApiKey",
    "other" }

\* the step recorded in last is a command that answered success = true
CommandSucceeded == last.op \in CommandNames /\ last.ok

\* an alarm is armed within the tolerance of the nextNotificationTime that
\* mirror and store hold
AlarmAgrees ==
  /\ Has(state, "nextNotificationTime") /\ IsNumber(state.nextNotificationTime)
  /\ Has(store, "nextNotificationTime")
  /\ store.nextNotificationTime = state.nextNotificationTime
  /\ \E a \in alarms : Abs(a.when - state.nextNotificationTime) <= Tolerance

\* C16: when the last command succeeded, the mirror is hydrated and isActive
\* is true, an alarm is armed within one second of the nextNotificationTime
\* of mirror and store.
C16_AlarmAgreesAfterSuccess ==
  (CommandSucceeded /\ isInitialized /\ state.isActive)
  => AlarmAgrees

\* no handler is between two of its awaits
Quiescent == inflight = Idle

\* C17: when isActive is false in a hydrated mirror and no handler is
\* mid-execution, no alarm is armed, however a toggle to false interleaves
\* with a setup in flight.
C17_InactiveMeansNoAlarm ==
  (Quiescent /\ isInitialized /\ ~state.isActive) => alarms = {}

\* the step recorded in last ran NotificationManager.snooze
Snoozed == last.op \in {"snooze", "buttonClicked"}

\* the fire time a snooze step asked for
SnoozeTime == last.at + SnoozedMinutes * MsPerMinute

\* C18: a snooze of more than maxSnoozeMinutes is rejected, as a command with
\* success = false; a snooze that succeeds leaves the alarm armed at exactly
\* the snooze instant plus minutes * 60000, the nextNotificationTime of mirror
\* and store.
C18_SnoozeExact ==
  Snoozed =>
    /\ SnoozedMinutes > last.hyd.maxSnoozeMinutes
         => /\ ~last.ok
            /\ last.op = "snooze" => (Has(last.resp, "success")
                                        /\ ~last.resp.success)
    /\ last.ok
         => /\ alarms = {[when |-> SnoozeTime, period |-> SnoozedMinutes]}
            /\ Has(state, "nextNotificationTime")
            /\ state.nextNotificationTime = SnoozeTime
            /\ Has(store, "nextNotificationTime")
            /\ store.nextNotificationTime = SnoozeTime

C18_Witness ==
  /\ last.op = "snooze" /\ last.arg = 20 /\ last.ok
  /\ last.at > StartTime
  /\ alarms = {[when |-> last.at + 1200000, period |-> 20]}
  /\ state.nextNotificationTime = last.at + 1200000

\* a snooze beyond the maximum was sent and refused
C18_WitnessRejected ==
  /\ last.op = "snooze" /\ last.arg = 181 /\ ~last.ok
  /\ last.resp = Failure("Snooze duration exceeds maximum allowed time")

\* a StorageManager.initialize has set isInitialized and is suspended in its
\* alarm setup
Initializing == inflight.by = "initialize" /\ inflight.pc # "idle"

\* the step recorded in last ran the body of a command handler
BodyRan == last.op \in CommandNames

\* C19: no command handler body runs while an initialization, its alarm
\* setup included, is still in progress.
C19_BodyAfterInitialization == BodyRan => ~Initializing

\* action was requested at position i of the requests of the popup
SentAt(i, action) == i \in DOMAIN popup.sent /\ popup.sent[i] = action

\* the two periodic loops of an open popup
PopupLoops == {"countdown", "verification"}

\* C20: the popup requests getSettings, then verifyAlarm, and only then runs
\* its loops, the countdown and the re-verification; a closed popup runs no
\* loop.
C20_PopupOpenSequence ==
  /\ popup.loops # {}
       => /\ SentAt(1, "getSettings") /\ SentAt(2, "verifyAlarm")
          /\ popup.notificationsActive => popup.loops = PopupLoops
  /\ ~popup.open => popup.loops = {}

\* the places of method in the calls of the step recorded in last
Positions(method) == {n \in DOMAIN last.calls : last.calls[n] = method}

\* the fire chain recorded in last ran to its end without its recovery
FiredCleanly == last.op = "onAlarm" /\ last.resets = 0

\* the fire time of a default setup made in the step recorded in last
DefaultTime == last.at + state.notificationInterval * MsPerMinute

\* C21: a fire hydrates the mirror (if it is not), then shows the
\* notification, then cleans up, then sets up with the default interval, in
\* that order; without a failure it ends with the alarm armed at the fire
\* instant + notificationInterval minutes, with that period.
C21_FireChainOrder ==
  FiredCleanly =>
    /\ \E i, j, k \in DOMAIN last.calls :
         /\ i < j /\ j < k
         /\ Positions("show") = {i}
         /\ last.calls[j] = "cleanup"
         /\ last.calls[k] = "setup"
         /\ \A n \in Positions("setup") : n <= k
         /\ \A n \in Positions("initialize") : n < i
    /\ IF last.pre.isInitialized THEN Positions("initialize") = {}
                                 ELSE Positions("initialize") = {1}
    /\ \E n \in notifications : n.buttons = state.defaultSnoozeOptions
    /\ alarms = {[when |-> DefaultTime, period |-> state.notificationInterval]}
    /\ Has(state, "nextNotificationTime")
    /\ state.nextNotificationTime = DefaultTime
    /\ Has(store, "nextNotificationTime")
    /\ store.nextNotificationTime = DefaultTime

C21_Witness ==
  /\ FiredCleanly /\ ~last.pre.isInitialized
  /\ last.calls = << "initialize", "setup", "cleanup",
                     "show", "cleanup", "setup", "cleanup" >>
  /\ alarms = {[when |-> last.at + 180000, period |-> 3]}
  /\ notifications # {}

\* the nextNotificationTime of settings s, absent when it is null
TimeOf(s) == [k \in DOMAIN s \cap {"nextNotificationTime"} |-> s[k]]

\* the step recorded in last is a direct call of setup that passed the checks
\* of its arguments
SetupAdmitted ==
  /\ last.op = "setupWith"
  /\ setupAdmits(WorldBefore, last.arg.minutes, last.arg.nextTime)

\* C22: a setup that passes its checks and fails at the creation of the alarm
\* returns false and leaves nextNotificationTime, in mirror and store, at the
\* value it had before the call.
C22_FailedCreateKeepsTime ==
  (SetupAdmitted /\ ~last.pre.alarmCreateOk)
  => /\ ~last.ok
     /\ TimeOf(state) = TimeOf(last.pre.state)
     /\ TimeOf(store) = TimeOf(last.pre.store)

\* the fire time that the setup recorded in last computed
ComputedTime ==
  actualNextTime(last.arg.minutes, last.arg.immediately, last.arg.nextTime)

\* C23: when setup returns true, the platform holds the alarm at the computed
\* time with period minutes and mirror and store hold that time; a setup
\* whose verification finds no alarm does not return true.
C23_TrueMeansArmed ==
  (last.op = "setupWith" /\ last.ok)
  => /\ verifySchedule(World)
     /\ alarms = {[when |-> ComputedTime, period |-> last.arg.minutes]}
     /\ Has(state, "nextNotificationTime")
     /\ state.nextNotificationTime = ComputedTime
     /\ Has(store, "nextNotificationTime")
     /\ store.nextNotificationTime = ComputedTime

\* the arguments of the setup recorded in last fail one of its checks:
\* minutes out of (0, maxSnoozeMinutes], or a nextTime that is not ahead
BadArguments ==
  \/ last.arg.minutes <= 0
  \/ last.arg.minutes > last.pre.state.maxSnoozeMinutes
  \/ last.arg.nextTime # 0 /\ last.arg.nextTime <= last.at

CleanupOutcome ==
  /\ last.ok => (TimeOf(state) = <<>> /\ TimeOf(store) = <<>>)
  /\ ~last.ok => store = last.pre.store
  /\ last.ok <=> (last.sets = 1 /\ last.arg.alarmsOk /\ last.pre.storageWriteOk)
  /\ WithoutTime(state) = WithoutTime(last.pre.state)
  /\ WithoutTime(store) = WithoutTime(last.pre.store)

\* C25 as claimed: after cleanup has returned no alarm exists; it returns true
\* exactly when nextNotificationTime = null was persisted, and changes no
\* other field.
C25_CleanupAlwaysClears ==
  last.op = "cleanupWith" => (alarms = {} /\ CleanupOutcome)

\* C25 as amended: after cleanup has returned no alarm exists, unless reading
\* or clearing the alarms of the platform failed: then it returns false and
\* alarm, mirror and store are as they were.
C25_CleanupClears ==
  last.op = "cleanupWith"
  => /\ CleanupOutcome
     /\ IF last.arg.alarmsOk THEN alarms = {}
        ELSE /\ ~last.ok
             /\ alarms = last.pre.alarms
             /\ state = last.pre.state
             /\ store = last.pre.store

C25_Witness ==
  /\ last.op = "cleanupWith" /\ last.ok /\ last.arg.alarmsOk
  /\ last.pre.alarms = {[when |-> StartTime + 180000, period |-> 3]}
  /\ last.pre.state.nextNotificationTime = StartTime + 180000
  /\ alarms = {}
  /\ TimeOf(state) = <<>> /\ TimeOf(store) = <<>>

\* the nextNotificationTime of settings a and b are numbers no further apart
\* than the tolerance
TimesAgree(a, b) ==
  /\ Has(a, "nextNotificationTime") /\ Has(b, "nextNotificationTime")
  /\ Abs(a.nextNotificationTime - b.nextNotificationTime) <= Tolerance

\* C26: a second setup(m) right after a first leaves what the first left: one
\* alarm with period m, and the same nextNotificationTime, within the
\* tolerance, in alarm, mirror and store.
C26_SetupIdempotent ==
  last.op = "setupAgain"
  => /\ last.ok
     /\ Cardinality(alarms) = 1
     /\ \A a \in alarms :
          /\ a.period = last.arg.minutes
          /\ \E b \in last.pre.alarms : Abs(a.when - b.when) <= Tolerance
          /\ Abs(a.when - state.nextNotificationTime) <= Tolerance
     /\ TimesAgree(state, last.pre.state)
     /\ TimesAgree(store, last.pre.store)
     /\ WithoutTime(state) = WithoutTime(last.pre.state)
     /\ WithoutTime(store) = WithoutTime(last.pre.store)

C26_Witness ==
  /\ last.op = "setupAgain" /\ last.ok /\ last.arg.minutes = 20
  /\ last.pre.alarms = {[when |-> last.at + 1200000, period |-> 20]}
  /\ alarms = last.pre.alarms
  /\ state.nextNotificationTime = last.at + 1200000

\* the attempts of the call of withRetry whose invocation does not throw
Succeeding == {a \in 0 .. retry.retryCount - 1 : ~retry.throws[a]}

\* C27: withRetry invokes operation at most retryCount times; it returns the
\* result of the first invocation that does not throw and invokes no more;
\* between two attempts it sleeps retryDelay * 2^attempt, not after the last
\* one; after retryCount failures it throws the error of the last attempt.
C27_WithRetry ==
  retry.pc # "none" =>
    /\ retry.invoked <= retry.retryCount
    /\ retry.pc = "returned" =>
         /\ Succeeding # {}
         /\ \A a \in Succeeding : retry.result <= a + 1
         /\ retry.result - 1 \in Succeeding
         /\ retry.invoked = retry.result
    /\ Len(retry.slept) =
         (IF retry.pc = "returned" THEN retry.invoked - 1
          ELSE Min(retry.invoked, Max(retry.retryCount - 1, 0)))
    /\ \A i \in DOMAIN retry.slept :
         retry.slept[i] = retry.retryDelay * Pow2(i - 1)
    /\ retry.pc = "threw" =>
         /\ Succeeding = {}
         /\ retry.invoked = retry.retryCount
         /\ retry.lastError = retry.retryCount

C27_Witness ==
  /\ retry.pc = "threw" /\ retry.retryCount = 3 /\ retry.retryDelay = 1000
  /\ retry.invoked = 3 /\ retry.slept = <<1000, 2000>> /\ retry.lastError = 3

\* a call that returns the result of its second invocation
C27_WitnessReturned ==
  /\ retry.pc = "returned" /\ retry.retryCount = 3 /\ retry.result = 2
  /\ retry.invoked = 2 /\ retry.slept = <<1000>>

\* C28: a call of init made while an earlier one is in flight constructs
\* nothing and is handed the promise of the one in flight, so it resolves
\* with its outcome; never are two constructions in progress.
C28_InitCollapses ==
  /\ Cardinality(InFlight(gemini)) <= 1
  /\ \A n \in DOMAIN gemini.calls :
       LET c == gemini.calls[n]
       IN  c.inFlight # {} => (~c.constructed /\ c.promise \in c.inFlight)
  /\ gemini.constructions =
       Cardinality({n \in DOMAIN gemini.calls : gemini.calls[n].constructed})

C28_Witness ==
  /\ Len(gemini.calls) >= 2
  /\ gemini.calls[1].constructed
  /\ gemini.calls[2].inFlight = {1}
  /\ gemini.calls[2].promise = 1 /\ ~gemini.calls[2].constructed
  /\ gemini.constructions = 1
  /\ 1 \in DOMAIN gemini.outcome /\ gemini.outcome[1]

\* C29: generateMessage returns null and raises one error notification
\* when the model is uninitialized, when the backend throws on every retry
\* and when the result has no response; a show that was handed null
\* presents the fallback message.
C29_FailureIsReported ==
  LET raised == Cardinality(Positions("handleGenerationError"))
      failed == /\ last.op = "generateMessage"
                /\ (last.pre.geminiModel = "none" \/ last.arg.outcome # "text")
      fellBack == /\ last.op = "onAlarm" /\ last.generations = 1
                  /\ ~last.arg.answered /\ notifications # {}
  IN  /\ failed => ~last.ok /\ raised = 1
      /\ fellBack => /\ raised = 1
                     /\ \A n \in notifications : n.body = "fallback"

\* C30: initialize called when the initialization has succeeded returns
\* true and touches nothing: no write or clear of the store, no cleanup or
\* setup of the alarm, the mirror, the model handle and the flag as they
\* were; it reads nothing either, since it returns true also while
\* chrome.storage.local.get rejects.
C30_InitializeIdempotent ==
  (last.op = "initialize" /\ last.pre.isInitialized)
  => /\ last.ok
     /\ last.calls = << "initialize" >>
     /\ last.sets = 0 /\ last.clears = 0 /\ last.resets = 0
     /\ state = last.pre.state
     /\ store = last.pre.store
     /\ alarms = last.pre.alarms
     /\ geminiModel = last.pre.geminiModel
     /\ isInitialized

\* a second initialize while the store can be neither read nor written, on
\* an active mirror with its alarm armed
C30_Witness ==
  /\ last.op = "initialize" /\ last.pre.isInitialized /\ last.ok
  /\ ~last.pre.storageReadOk /\ ~last.pre.storageWriteOk
  /\ state.isActive /\ alarms # {}
  /\ DOMAIN store # {}

\* a second initialize on an active mirror whose alarm is gone
C30_WitnessNoAlarm ==
  /\ last.op = "initialize" /\ last.pre.isInitialized /\ last.ok
  /\ state.isActive /\ alarms = {}

\* C31: when a process that was stopped (in a fire chain or elsewhere) has
\* handled its first command and isActive is true, an alarm is armed within
\* one second of the nextNotificationTime that mirror and store hold.
C31_FirstCommandRepairs ==
  (/\ last.op \in CommandNames
   /\ ~last.pre.isInitialized /\ DOMAIN last.pre.store # {}
   /\ isInitialized /\ state.isActive)
  => AlarmAgrees

\* the same of the commands that answer success = true
C31_FirstSuccessfulCommandRepairs ==
  (/\ CommandSucceeded
   /\ ~last.pre.isInitialized /\ DOMAIN last.pre.store # {}
   /\ isInitialized /\ state.isActive)
  => AlarmAgrees

\* C32: a click on button i that snoozes does so for entry i of the
\* persisted defaultSnoozeOptions (what a hydration reads from the store),
\* also when the click is the first event a restarted process handles: the
\* time it arms and persists is that many minutes after the click.
C32_ClickUsesPersistedOptions ==
  (last.op = "buttonClicked" /\ last.ok)
  => LET options == HydratedBefore.state.defaultSnoozeOptions
     IN  /\ Has(store, "nextNotificationTime")
         /\ store.nextNotificationTime
              = last.at + options[last.arg + 1] * MsPerMinute

\* the same of the clicks a hydrated process handles
C32_HydratedClickUsesPersistedOptions ==
  (last.op = "buttonClicked" /\ last.ok /\ last.pre.isInitialized)
  => LET options == HydratedBefore.state.defaultSnoozeOptions
     IN  /\ Has(store, "nextNotificationTime")
         /\ store.nextNotificationTime
              = last.at + options[last.arg + 1] * MsPerMinute

\* C33: when the listener has handled a store change made from outside, the
\* mirror agrees with the store on every key the change touched: a key the
\* store holds has the same value in the mirror, a key removed from the
\* store has none in the mirror.
C33_MirrorFollowsStore ==
  last.op = "storageChanged"
  => \A k \in ChangedKeys(last.pre.store, last.arg) :
       /\ Has(state, k) <=> Has(store, k)
       /\ Has(store, k) => state[k] = store[k]

\* the same of the keys that the change wrote
C33_MirrorFollowsWrittenKeys ==
  last.op = "storageChanged"
  => \A k \in ChangedKeys(last.pre.store, last.arg) \cap DOMAIN last.arg.set :
       Has(state, k) /\ Has(store, k) /\ state[k] = store[k]

\* C34: a command that answers success = false leaves mirror, store and
\* alarm as they were when it began (the mirror as the lazy initialization
\* of the command hydrated it); so a snooze, notification or setNextAlert
\* whose minutes the scheduler rejected leaves no changed
\* defaultSnoozeOptions, notificationInterval or nextNotificationTime.
C34_FailedCommandChangesNothing ==
  (/\ last.op \in CommandNames
   /\ Has(last.resp, "success") /\ ~last.resp.success)
  => /\ state = HydratedBefore.state
     /\ store = HydratedBefore.store
     /\ alarms = HydratedBefore.alarms

\* C35: isActive (as the process holds it once hydrated) turns from false to
\* true only in a toggle command with isActive = true; an alarm handled
\* while isActive is false neither enables the reminders nor resets the
\* settings.
C35_OnlyToggleEnables ==
  (~HydratedBefore.state.isActive /\ hydrate(World).state.isActive)
  => (last.op = "toggle" /\ last.arg = TRUE)

\* the same of every step but the fire chain of an alarm
C35_OnlyToggleEnablesOutsideFireChain ==
  (/\ last.op # "onAlarm"
   /\ ~HydratedBefore.state.isActive /\ hydrate(World).state.isActive)
  => (last.op = "toggle" /\ last.arg = TRUE)

\* C36: when two calls of updateSettings on disjoint keys have both
\* returned true, the mirror holds both updates and agrees with the store on
\* every key the store holds.
C36_NoLostUpdate ==
  \A i, j \in DOMAIN updating.calls :
    LET a == updating.calls[i]
        b == updating.calls[j]
        keys(c) == DOMAIN c.updates.set \cup c.updates.del
    IN  (/\ i < j /\ keys(a) \cap keys(b) = {}
         /\ a.pc = "returned" /\ a.ret /\ b.pc = "returned" /\ b.ret)
        => /\ \A k \in DOMAIN a.updates.set : state[k] = a.updates.set[k]
           /\ \A k \in DOMAIN b.updates.set : state[k] = b.updates.set[k]
           /\ \A k \in DOMAIN store : state[k] = store[k]

\* the same once the listener has run on every change event
C36_NoLostUpdateOnceObserved ==
  updating.events = <<>> => C36_NoLostUpdate

\* the same of one call that has returned true when no other call was made
C36_SingleUpdateKept ==
  (/\ Len(updating.calls) = 1 /\ updating.calls[1].pc = "returned"
   /\ updating.calls[1].ret)
  => /\ \A k \in DOMAIN updating.calls[1].updates.set :
          state[k] = updating.calls[1].updates.set[k]
     /\ \A k \in DOMAIN store : state[k] = store[k]

\* C37: a click on a button that snoozes does so for the minutes the button
\* was labelled with when the notification was presented, whatever has
\* become of defaultSnoozeOptions since: the time it arms and persists is
\* that many minutes after the click.
C37_ClickSnoozesLabel ==
  (last.op = "buttonClicked" /\ last.ok /\ last.pre.isInitialized)
  => \E n \in last.pre.notifications :
       /\ Has(store, "nextNotificationTime")
       /\ store.nextNotificationTime
            = last.at + n.buttons[last.arg + 1] * MsPerMinute

\* the same of a click on a notification whose labels are the
\* defaultSnoozeOptions of the mirror at the click
C37_ClickSnoozesCurrentLabel ==
  (/\ last.op = "buttonClicked" /\ last.ok /\ last.pre.isInitialized
   /\ \A n \in last.pre.notifications :
        n.buttons = last.pre.state.defaultSnoozeOptions)
  => \E n \in last.pre.notifications :
       /\ Has(store, "nextNotificationTime")
       /\ store.nextNotificationTime
            = last.at + n.buttons[last.arg + 1] * MsPerMinute

\* C38: when an init call with a key that is not blank resolves with true
\* (what makes saveApiKey answer success = true for the key it passed), the
\* model handle is one constructed from the key of that call, whatever other
\* init call was in flight.
C38_ResolvedKeyIsActive ==
  [][\A p \in DOMAIN gemini'.outcome \ DOMAIN gemini.outcome :
       gemini'.outcome[p] =>
         \A i \in DOMAIN gemini.calls :
           (gemini.calls[i].promise = p /\ trim(gemini.calls[i].apiKey) # "")
             => gemini'.model = gemini.calls[i].apiKey]_vars

\* the same of the call that made the promise
C38_ConstructingKeyIsActive ==
  [][\A p \in DOMAIN gemini'.outcome \ DOMAIN gemini.outcome :
       gemini'.outcome[p] =>
         \A i \in DOMAIN gemini.calls :
           (gemini.calls[i].promise = p /\ gemini.calls[i].constructed)
             => gemini'.model = gemini.calls[i].apiKey]_vars

\* C39: when no attempt of init is in flight, initPromise is null, so that
\* the next call with a key that works starts an attempt of its own.
C39_MarkerCleared ==
  InFlight(gemini) = {} => gemini.initPromise = 0

\* the same when no call was made with a key that is empty or blank
C39_MarkerClearedAfterTry ==
  (/\ InFlight(gemini) = {}
   /\ \A i \in DOMAIN gemini.calls : trim(gemini.calls[i].apiKey) # "")
  => gemini.initPromise = 0

\* C40: when verifyAlarm or getAlarmStatus has run while every write of
\* the store fails, the mirror holds no value that the command gave it and
\* the store does not hold.
C40_MirrorHoldsOnlyStored ==
  (last.op \in {"verifyAlarm", "getAlarmStatus"} /\ ~last.pre.storageWriteOk)
  => \A k \in DOMAIN state :
       (~Has(HydratedBefore.state, k) \/ HydratedBefore.state[k] # state[k])
         => (Has(store, k) /\ store[k] = state[k])

\* a single call of updateSettings whose write failed on every retry has
\* returned false and left the mirror and the store as they were
C40_FailedUpdateKeepsMirror ==
  (/\ Len(updating.calls) = 1
   /\ updating.calls[1].pc = "returned" /\ ~updating.calls[1].ret)
  => /\ state = [DEFAULT_SETTINGS EXCEPT !.notificationInterval = 3]
                  @@ [nextNotificationTime |-> StartTime + 3 * MsPerMinute]
     /\ store = [nextNotificationTime |-> StartTime + 3 * MsPerMinute]

====
